---- MODULE Spec2Model ----
(***************************************************************************)
(* Session manager: the kill -> poll-until-cleared -> clear-metadata       *)
(* workflow of HappyCliExecutor (killSession, killSessionSilently) over    *)
(* HappyApiClient (killSession, getSession, pollSession,                   *)
(* clearHappyMetadata), against the external session registry.            *)
(*                                                                         *)
(* Time is counted in milliseconds and advances in steps of one poll       *)
(* interval.  An HTTP request is answered at any later moment; a timer     *)
(* fires once its delay has passed, or later.                              *)
(***************************************************************************)
EXTENDS Integers, Sequences, FiniteSets, TLC

VARIABLES reg, inv, runs, cmd, dev, web, view, eink

vars == <<reg, inv, runs, cmd, dev, web, view, eink>>

\* what the reconcile workflow does not touch: the command in progress in the
\* session manager, the device manager, the welcome extension
others == <<cmd, dev, web, view, eink>>

(* ------------------------------ bounds --------------------------------- *)

\* invocations started in one behaviour
MaxRuns == 2
\* longest time a getSession request stays unanswered, in poll intervals
MaxLatency == 1
\* longest time a timer fires late, in poll intervals
MaxJitter == 0
\* poll intervals that pass at once where requests are slow
SlowStep == 9
\* commands invoked in one behaviour
MaxCommands == 1
\* steps of time in one retry interval of the trial verification
TicksPerInterval == 2
\* activations of the welcome extension in one behaviour
MaxActivations == 4
\* welcome panels opened by command in one behaviour
MaxOpens == 6
\* sessions in one answer of listSessions
MaxSessions == 3
\* distinct lastSeenAt values
MaxStamp == 3
\* calls of refreshAndUpdateStatus in one behaviour
MaxRefreshes == 4

(* ------------------------------ values --------------------------------- *)

\* pid: number | null  -- null is NoPid
NoPid == -1
\* happySessionId, happySessionTag: string | null  -- null is NoLink
NoLink == "<null>"
\* no clock value
NoTime == -1

Sessions == {"s1", "s2"}
Invs == {1}
\* the calls that can be in progress at once: inv has one frame for each
Callers == {1, 2}
\* the process id of the process each session runs
PidOf == [s \in Sessions |-> IF s = "s1" THEN 4242 ELSE 4243]
Pids == {PidOf[s] : s \in Sessions}
Modes == {"kill", "silent"}

\* the session argument of killSession / killSessionSilently
Snapshots ==
  {x \in [claudeSessionId : Sessions,
          pid : {NoPid, 0} \cup Pids,
          happySessionId : {NoLink, "h1"}] :
     x.pid \in {NoPid, 0, PidOf[x.claudeSessionId]}}

\* pollSession(..., { timeout: 10000, interval: 500 })
PollOptions == [timeout |-> 10000, interval |-> 500]
\* const timeout = options.timeout || 10000
DefaultTimeout == 10000
\* const interval = options.interval || 500
DefaultInterval == 500

\* const TRIAL_STATUS_RETRY_INTERVAL_MS = 5000
TRIAL_STATUS_RETRY_INTERVAL_MS == 5000
\* const TRIAL_STATUS_RETRY_ATTEMPTS = 6
TRIAL_STATUS_RETRY_ATTEMPTS == 6
\* const maxChecks = 240; // ~12 minutes at 3s intervals
maxChecks == 240
\* setInterval(..., 5000) of setupAutoRefresh
RefreshIntervalMs == 5000
Timeout == IF PollOptions.timeout # 0 THEN PollOptions.timeout ELSE DefaultTimeout
Interval == IF PollOptions.interval # 0 THEN PollOptions.interval ELSE DefaultInterval

(* ------------------------------ helpers -------------------------------- *)

FalsyPidZeroOnly(pid) == pid = 0

\* !session.pid
FalsyPid(pid) == pid = NoPid \/ pid = 0

\* !!session.happySessionId
TruthyLink(h) == h # NoLink /\ h # ""

PredicatePidOnly(s) == s.pid = NoPid

PredicateStatusOnly(s) == s.status = "terminated"

PredicateBoth(s) == s.pid = NoPid /\ s.status = "terminated"

PredicateAny(s) == TRUE

\* (s) => s.pid === null || s.status === 'terminated'
Predicate(s) == s.pid = NoPid \/ s.status = "terminated"

LoopCondInclusive(elapsed) == elapsed <= Timeout

\* while (Date.now() - startTime < timeout)
LoopCond(elapsed) == elapsed < Timeout

ShouldClearAlways(mode, session) == TRUE

ShouldClearSilentOnly(mode, session) == mode = "silent"

\* killSession: const isHappySession = !!session.happySessionId; if (isHappySession) clear
\* killSessionSilently: clears unconditionally
ShouldClear(mode, session) ==
  IF mode = "silent" THEN TRUE ELSE TruthyLink(session.happySessionId)

\* the message thrown when the session has no pid
NoPidMessage(mode) ==
  IF mode = "silent" THEN "Session has no PID to kill" ELSE "Session has no PID"

(* ------------------------------ requests ------------------------------- *)

\* POST /v1/local-sessions/:id/kill  { signal: 'term', targetPid }
KillRequest(session) ==
  [op |-> "kill", sid |-> session.claudeSessionId, signal |-> "term",
   targetPid |-> session.pid, happySessionId |-> "", happySessionTag |-> "",
   res |-> "pending", pid |-> NoPid, status |-> ""]

\* GET /v1/local-sessions?claudeSessionId=...&limit=1
GetRequest(session) ==
  [op |-> "get", sid |-> session.claudeSessionId, signal |-> "",
   targetPid |-> NoPid, happySessionId |-> "", happySessionTag |-> "",
   res |-> "pending", pid |-> NoPid, status |-> ""]

ClearRequestFirstSession(session) ==
  [op |-> "clear", sid |-> "s1", signal |-> "",
   targetPid |-> NoPid, happySessionId |-> NoLink, happySessionTag |-> NoLink,
   res |-> "pending", pid |-> NoPid, status |-> ""]

ClearRequestKeepsTag(session) ==
  [op |-> "clear", sid |-> session.claudeSessionId, signal |-> "",
   targetPid |-> NoPid, happySessionId |-> NoLink, happySessionTag |-> "t1",
   res |-> "pending", pid |-> NoPid, status |-> ""]

\* POST /v1/local-sessions  { claudeSessionId, happySessionId: null, happySessionTag: null }
ClearRequest(session) ==
  [op |-> "clear", sid |-> session.claudeSessionId, signal |-> "",
   targetPid |-> NoPid, happySessionId |-> NoLink, happySessionTag |-> NoLink,
   res |-> "pending", pid |-> NoPid, status |-> ""]

\* the request a frame is waiting on is the last of its log
Issue(f, req) == [f EXCEPT !.log = Append(@, req)]

Answer(f, res, pid, status) ==
  [f EXCEPT !.log[Len(f.log)].res = res,
            !.log[Len(f.log)].pid = pid,
            !.log[Len(f.log)].status = status]

Finish(f, outcome) == [f EXCEPT !.pc = "done", !.outcome = outcome]

IdleFrame ==
  [pc |-> "idle", mode |-> "kill",
   session |-> [claudeSessionId |-> "s1", pid |-> NoPid, happySessionId |-> NoLink],
   elapsed |-> 0, waited |-> 0, outcome |-> "", log |-> <<>>,
   clearedAt |-> NoTime, cleanAtStart |-> FALSE, prevCleanOk |-> FALSE]

\* the tree item a command is invoked with: none, or one with its session
NoItem == [session |-> [claudeSessionId |-> "", pid |-> NoPid, happySessionId |-> NoLink],
           status |-> ""]
Items == {NoItem} \cup [session : Snapshots, status : {"active", "happy-active", "terminated"}]

\* the answer of the modal dialog: the button, or undefined when dismissed
Dismissed == "<undefined>"

\* no command of the session manager in progress
NoCommand ==
  [pc |-> "idle", kind |-> "", item |-> NoItem, choice |-> "", shown |-> <<>>,
   terminals |-> <<>>, calls |-> 0, refreshes |-> 0, aliveAtLaunch |-> FALSE, n |-> 0]
\* no update-status monitor started
NoMonitor == [pc |-> "none", checkCount |-> 0, how |-> ""]

\* the fields of WelcomeViewProvider (device manager) as declared, with the
\* files of the trial credentials (files), the operations in progress (upd,
\* chk, op, mon), the systemd unit of the update job (unit), the time the
\* verification timer has waited (waited), of the current verification
\* round, the follow-up checks run (followUps) and the wait of the last (gap),
\* and the timeouts set by setTimeout and neither fired nor cleared (timers)
NoDevice ==
  [isProcessing |-> FALSE, updateStatus |-> "",
   trialActive |-> FALSE, trialConfirmed |-> FALSE,
   trialStatusSources |-> [env |-> FALSE, settings |-> FALSE],
   trialVerificationTimer |-> FALSE, trialVerificationAttemptsRemaining |-> 0,
   files |-> [env |-> FALSE, settings |-> FALSE],
   upd |-> "idle", chk |-> "idle", op |-> "idle", mon |-> NoMonitor, unit |-> "none",
   waited |-> 0, followUps |-> 0, gap |-> 0, last |-> "", timers |-> 0]
\* the welcome extension before it is activated: globalState has no
\* 'pamir.homeShown'; with the panels open (panels), the activations so far
\* (activations), the panels opened by activate (autoOpened) and by the
\* command (opened), and whether the last activate threw (threw)
NoWelcome ==
  [active |-> FALSE, homeShown |-> FALSE, panels |-> 0, activations |-> 0,
   autoOpened |-> 0, opened |-> 0, threw |-> FALSE]

\* the text of the status bar item before anything is written to it
NoText == [icon |-> "", n |-> 0, noun |-> ""]

\* the session manager's view before activation: the answer of listSessions
\* the tree was built from (listed), the root items (root) and the children
\* of each root item (children); the module variable refreshTimer (0 when
\* undefined), the interval timers that are set and not cleared (timers), the
\* timers made so far (made); the calls of refreshAndUpdateStatus so far
\* (started) with what started the latest (origin), those still awaiting
\* listSessions (inflight), the text of the status bar (text) and the call
\* that wrote it (writer)
NoView ==
  [listed |-> [ok |-> TRUE, sessions |-> <<>>], root |-> <<>>, children |-> <<>>,
   activated |-> FALSE, refreshTimer |-> 0, timers |-> {}, made |-> 0,
   started |-> 0, origin |-> "", inflight |-> {}, text |-> NoText, writer |-> 0]
\* the exit event of the Python process not yet seen
NoExit == [code |-> -1, sawError |-> FALSE]

\* no e-ink display operation in progress.  Of displayOnDevice: the temp
\* files on disk (disk), those it has created (created), filesToClean, the
\* index of the cleanup loop (next), the files whose unlink failed
\* (unlinkFailed), pamir.eink.debugMode as the finally block read it, the
\* error caught (error) and how the call ended (result).  Of runPythonScript:
\* the child process (child), the timeout timer (timer), whether SIGKILL was
\* sent (killed), whether the stderr collected so far contains 'ERROR:'
\* (stderrError), the exit event as handled (exit), the state of the promise
\* (settled), the call that settled it (why) and the calls of resolve and
\* reject so far (attempts)
NoEink ==
  [pc |-> "idle", disk |-> {}, created |-> {}, filesToClean |-> <<>>, next |-> 0,
   unlinkFailed |-> {}, debugMode |-> FALSE, error |-> "", result |-> "",
   child |-> "none", timer |-> "none", killed |-> FALSE, stderrError |-> FALSE,
   exit |-> NoExit, settled |-> "pending", why |-> "", attempts |-> 0]

(* ------------------------------ registry ------------------------------- *)

Records ==
  [exists : BOOLEAN, pid : {NoPid} \cup Pids, status : {"active", "terminated"},
   happySessionId : {NoLink, "h1"}, happySessionTag : {NoLink, "t1"}]

\* the record of a session the registry does not know (any more)
Gone ==
  [exists |-> FALSE, pid |-> NoPid, status |-> "terminated",
   happySessionId |-> NoLink, happySessionTag |-> NoLink]

\* a registered session with a running process, linked to a phone or not
Running ==
  {r \in Records : /\ r.exists
                   /\ r.pid # NoPid
                   /\ r.status = "active"
                   /\ (r.happySessionId = NoLink) = (r.happySessionTag = NoLink)}

\* the registry reports the process gone: pid cleared or status terminated
Terminated(r) == r.pid = NoPid \/ r.status = "terminated"

\* process already terminated and link already cleared
Clean(r) == r.exists /\ Terminated(r) /\ r.happySessionId = NoLink /\ r.happySessionTag = NoLink

Init ==
  /\ reg \in {g \in [Sessions -> Running \cup {Gone}] :
                /\ g["s1"].exists /\ ~g["s2"].exists
                /\ \A s \in Sessions : g[s].exists => g[s].pid = PidOf[s]}
  /\ inv = [i \in Callers |-> IdleFrame]
  /\ runs = 0
  /\ cmd = NoCommand
  /\ dev = NoDevice
  /\ web = NoWelcome
  /\ view = NoView
  /\ eink = NoEink

Polling(f) == f.pc \in {"poll", "sleep"}

Min(a, b) == IF a < b THEN a ELSE b

\* the process of session s exits (on a signal or by itself); the registry's
\* watcher clears the pid, or marks the status, or both.  An invocation that
\* signalled s notes how long after the signal the registry first reports it
\* (up to one poll interval: later than that is not told apart).
ProcessExits(s) ==
  /\ reg[s].exists
  /\ \E r \in Records :
       /\ r.exists
       /\ r.happySessionId = reg[s].happySessionId
       /\ r.happySessionTag = reg[s].happySessionTag
       /\ r.pid \in {reg[s].pid, NoPid}
       /\ r.status \in {reg[s].status, "terminated"}
       /\ r # reg[s]
       /\ reg' = [reg EXCEPT ![s] = r]
  /\ inv' = [i \in DOMAIN inv |->
               IF /\ Polling(inv[i])
                  /\ inv[i].session.claudeSessionId = s
                  /\ inv[i].clearedAt = NoTime
               THEN [inv[i] EXCEPT !.clearedAt = Min(inv[i].elapsed, Interval)]
               ELSE inv[i]]
  /\ UNCHANGED <<runs, others>>

\* the registry loses the record of session s
RecordVanishes(s) ==
  /\ reg[s].exists
  /\ reg' = [reg EXCEPT ![s] = Gone]
  /\ UNCHANGED <<inv, runs, others>>

(* ------------------------------ reconcile ------------------------------ *)

\* pollSession, top of the loop: next getSession or 'Polling timeout'
EnterLoop(f) ==
  IF LoopCond(f.elapsed)
  THEN [Issue(f, GetRequest(f.session)) EXCEPT !.pc = "poll", !.waited = 0]
  ELSE Finish(f, "Polling timeout")

\* step 3 of killSession / killSessionSilently
AfterPoll(f) ==
  IF ShouldClear(f.mode, f.session)
  THEN [Issue(f, ClearRequest(f.session)) EXCEPT !.pc = "clear"]
  ELSE Finish(f, "success")

\* step 1 returned: const startTime = Date.now() of pollSession
KillAccepted(f, r) ==
  EnterLoop([Answer(f, "ok", NoPid, "") EXCEPT
               !.elapsed = 0,
               !.clearedAt = IF Terminated(r) THEN 0 ELSE NoTime])

KillRejectedRetries(f) ==
  [Issue(Answer(f, "err", NoPid, ""), KillRequest(f.session)) EXCEPT !.pc = "kill"]

\* catch of HappyApiClient.killSession
KillRejected(f) == Finish(Answer(f, "err", NoPid, ""), "Cannot kill session")

PolledIgnoresPredicate(f, r) == AfterPoll(Answer(f, "ok", r.pid, r.status))

\* pollSession after a getSession that returned a record
Polled(f, r) ==
  IF Predicate(r)
  THEN AfterPoll(Answer(f, "ok", r.pid, r.status))
  ELSE [Answer(f, "ok", r.pid, r.status) EXCEPT !.pc = "sleep", !.waited = 0]

PolledMissingRetries(f) ==
  [Answer(f, "missing", NoPid, "") EXCEPT !.pc = "sleep", !.waited = 0]

\* if (!session) throw new Error(`Session ${claudeSessionId} not found`)
PolledMissing(f) == Finish(Answer(f, "missing", NoPid, ""), "Session not found")

FetchFailedUnwrapped(f) == Finish(Answer(f, "err", NoPid, ""), "Cannot connect to Happy server")

\* catch of HappyApiClient.getSession
FetchFailed(f) == Finish(Answer(f, "err", NoPid, ""), "Cannot fetch session")

\* clearHappyMetadata returned
ClearAccepted(f) == Finish(Answer(f, "ok", NoPid, ""), "success")

ClearRejectedRetries(f) ==
  [Issue(Answer(f, "err", NoPid, ""), ClearRequest(f.session)) EXCEPT !.pc = "clear"]

\* catch of HappyApiClient.clearHappyMetadata
ClearRejected(f) == Finish(Answer(f, "err", NoPid, ""), "Cannot detach session")

\* entry of killSession / killSessionSilently
Enter(f) ==
  IF FalsyPid(f.session.pid)
  THEN Finish(f, NoPidMessage(f.mode))
  ELSE [Issue(f, KillRequest(f.session)) EXCEPT !.pc = "kill"]

\* killSession(session) / killSessionSilently(session) is called
Call(i, session, mode) ==
  /\ inv[i].pc \in {"idle", "done"}
  /\ runs < MaxRuns
  /\ runs' = runs + 1
  /\ inv' = [inv EXCEPT ![i] =
               Enter([IdleFrame EXCEPT !.mode = mode, !.session = session,
                                       !.cleanAtStart = Clean(reg[session.claudeSessionId]),
                                       !.prevCleanOk = (inv[i].outcome = "success" /\ inv[i].cleanAtStart)])]

\* a caller other than the commands of the extension calls it
Start(i, session, mode) ==
  /\ Call(i, session, mode)
  /\ UNCHANGED <<reg, others>>

\* the kill request is answered
KillReturns(i) ==
  LET f == inv[i]
      s == f.log[Len(f.log)].sid
  IN /\ f.pc = "kill"
     /\ \/ /\ reg[s].exists
           /\ inv' = [inv EXCEPT ![i] = KillAccepted(f, reg[s])]
        \/ inv' = [inv EXCEPT ![i] = KillRejected(f)]
     /\ UNCHANGED <<reg, runs, others>>

\* the getSession request of the poll loop is answered
GetReturns(i) ==
  LET f == inv[i]
      s == f.log[Len(f.log)].sid
  IN /\ f.pc = "poll"
     /\ \/ inv' = [inv EXCEPT ![i] = FetchFailed(f)]
        \/ inv' = [inv EXCEPT ![i] =
                      IF reg[s].exists THEN Polled(f, reg[s]) ELSE PolledMissing(f)]
     /\ UNCHANGED <<reg, runs, others>>

\* the setTimeout(resolve, interval) of the poll loop fires
TimerFires(i) ==
  LET f == inv[i]
  IN /\ f.pc = "sleep"
     /\ f.waited >= Interval
     /\ inv' = [inv EXCEPT ![i] = EnterLoop(f)]
     /\ UNCHANGED <<reg, runs, others>>

\* the clear-metadata request is answered
ClearReturns(i) ==
  LET f == inv[i]
      req == f.log[Len(f.log)]
      s == req.sid
  IN /\ f.pc = "clear"
     /\ \/ /\ reg[s].exists
           /\ reg' = [reg EXCEPT ![s].happySessionId = req.happySessionId,
                                  ![s].happySessionTag = req.happySessionTag]
           /\ inv' = [inv EXCEPT ![i] = ClearAccepted(f)]
        \/ /\ inv' = [inv EXCEPT ![i] = ClearRejected(f)]
           /\ UNCHANGED reg
     /\ UNCHANGED <<runs, others>>

\* one poll interval of time passes; a request is answered within MaxLatency
\* intervals (the client gives up after 5000 ms) and a timer fires at most
\* MaxJitter intervals late
Tick ==
  /\ \E i \in DOMAIN inv : Polling(inv[i])
  /\ \A i \in DOMAIN inv :
       /\ inv[i].pc = "poll" => inv[i].waited < MaxLatency * Interval
       /\ inv[i].pc = "sleep" => inv[i].waited < Interval + MaxJitter * Interval
  /\ inv' = [i \in DOMAIN inv |->
               IF Polling(inv[i])
               THEN [inv[i] EXCEPT !.elapsed = @ + Interval, !.waited = @ + Interval]
               ELSE inv[i]]
  /\ UNCHANGED <<reg, runs, others>>

Next ==
  \/ \E i \in Invs, session \in Snapshots, mode \in Modes : Start(i, session, mode)
  \/ \E i \in Invs : KillReturns(i)
  \/ \E i \in Invs : GetReturns(i)
  \/ \E i \in Invs : TimerFires(i)
  \/ \E i \in Invs : ClearReturns(i)
  \/ \E s \in Sessions : ProcessExits(s)
  \/ \E s \in Sessions : RecordVanishes(s)
  \/ Tick

Spec == Init /\ [][Next]_vars

TypeOK ==
  /\ reg \in [Sessions -> Records]
  /\ runs \in 0 .. MaxRuns
  /\ \A i \in Invs : inv[i].pc \in {"idle", "kill", "poll", "sleep", "clear", "done"}

(* ------------------------------ vocabulary ----------------------------- *)

\* the error kind of the specification that a thrown message stands for
ErrorKind(outcome) ==
  CASE outcome \in {"Session has no PID", "Session has no PID to kill"} -> "InvalidState"
    [] outcome = "Cannot kill session" -> "TerminationRequestFailed"
    [] outcome = "Session not found" -> "SessionNotFound"
    [] outcome = "Polling timeout" -> "ReconciliationTimeout"
    [] outcome = "Cannot detach session" -> "MetadataClearFailed"
    [] outcome = "success" -> "success"
    [] OTHER -> "none"

Ops(f, op) == {k \in DOMAIN f.log : f.log[k].op = op}
Kills(f) == Cardinality(Ops(f, "kill"))
Polls(f) == Cardinality(Ops(f, "get"))
Clears(f) == Cardinality(Ops(f, "clear"))

Started(f) == f.pc # "idle"
Done(f) == f.pc = "done"

\* the polled record of a getSession that found the session
FoundRecord(e) == e.op = "get" /\ e.res = "ok"

\* the poll loop of f returned its session (pollSession resolved)
PollSucceeded(f) ==
  \/ f.pc = "clear"
  \/ Done(f) /\ f.outcome \in {"success", "Cannot detach session"}

\* no request of f was rejected, failed or found the session missing
Smooth(f) == \A k \in DOMAIN f.log : f.log[k].res \in {"ok", "pending"}

MaxPolls == Timeout \div Interval

(* ------------------------------ properties ----------------------------- *)

\* C1: an invocation called with a session whose process id is absent has
\* failed at once with InvalidState and has issued no registry request.
C1_NoPidFailsFast ==
  \A i \in Invs :
    Started(inv[i]) /\ inv[i].session.pid = NoPid =>
      /\ Done(inv[i])
      /\ ErrorKind(inv[i].outcome) = "InvalidState"
      /\ inv[i].log = <<>>

C1_Witness ==
  \E i \in Invs :
    /\ Done(inv[i])
    /\ inv[i].session.pid = NoPid
    /\ inv[i].mode = "silent"
    /\ inv[i].outcome = "Session has no PID to kill"
    /\ inv[i].log = <<>>

\* C2: the requests of one invocation come in the order terminate, polls,
\* clear-link: the first request, and no other, is the terminate request with
\* signal 'term' and the snapshot's pid; a poll is issued only once the
\* terminate request has returned success; a clear-link request is issued only
\* right after a poll whose record satisfied the exit condition.
C2_StrictOrder ==
  \A i \in Invs :
    LET f == inv[i] IN
    \A k \in DOMAIN f.log :
      LET e == f.log[k] IN
      /\ (k = 1) = (e.op = "kill")
      /\ e.op = "kill" => /\ e.signal = "term"
                          /\ e.targetPid = f.session.pid
                          /\ e.sid = f.session.claudeSessionId
      /\ e.op = "get" => f.log[1].res = "ok" /\ f.log[k - 1].op \in {"kill", "get"}
      /\ e.op = "clear" => /\ k = Len(f.log)
                           /\ f.log[1].res = "ok"
                           /\ FoundRecord(f.log[k - 1])
                           /\ Terminated(f.log[k - 1])

C2_Witness ==
  \E i \in Invs :
    LET f == inv[i] IN
    /\ Done(f) /\ f.outcome = "success"
    /\ Polls(f) >= 2
    /\ f.log[Len(f.log)].op = "clear"

\* C3: the terminate request and the clear-link request are each issued at
\* most once per invocation, and a rejected terminate request ends the
\* invocation with TerminationRequestFailed after that one request: no poll
\* and no clear-link request follow.
C3_OneAttempt ==
  \A i \in Invs :
    LET f == inv[i] IN
    /\ Kills(f) <= 1
    /\ Clears(f) <= 1
    /\ (Len(f.log) >= 1 /\ f.log[1].res = "err") =>
         /\ Done(f)
         /\ ErrorKind(f.outcome) = "TerminationRequestFailed"
         /\ Len(f.log) = 1

C3_Witness ==
  \E i \in Invs :
    LET f == inv[i] IN
    /\ Done(f) /\ f.outcome = "Cannot kill session"
    /\ Len(f.log) = 1 /\ f.log[1].op = "kill" /\ f.log[1].res = "err"
    /\ reg[f.session.claudeSessionId].exists

\* C4: a poll that finds the session missing ends the invocation at once with
\* SessionNotFound, whether it is the first poll or a later one: it is the
\* last request of the invocation (no further poll, no clear-link).
C4_MissingFailsAtOnce ==
  \A i \in Invs :
    LET f == inv[i] IN
    \A k \in DOMAIN f.log :
      f.log[k].res = "missing" =>
        /\ f.log[k].op = "get"
        /\ k = Len(f.log)
        /\ Done(f)
        /\ ErrorKind(f.outcome) = "SessionNotFound"

C4_Witness ==
  \E i \in Invs :
    LET f == inv[i] IN
    /\ Done(f) /\ f.outcome = "Session not found"
    /\ Polls(f) >= 3
    /\ FoundRecord(f.log[Len(f.log) - 1])

\* the registry reported the process gone less than one poll interval after
\* it accepted the terminate request of f
ClearedWithinInterval(f) == f.clearedAt # NoTime /\ f.clearedAt < Interval

LastPoll(f) == f.log[CHOOSE k \in Ops(f, "get") : \A j \in Ops(f, "get") : j <= k]

\* C5 as stated: at most 20 polls ever, and an invocation that times out has
\* made 20 polls, after the budget has elapsed and without a clear-link request.
C5_Original ==
  \A i \in Invs :
    LET f == inv[i] IN
    /\ Polls(f) <= MaxPolls
    /\ (Done(f) /\ f.outcome = "Polling timeout") =>
         /\ Polls(f) = MaxPolls
         /\ f.elapsed >= Timeout
         /\ Clears(f) = 0

\* C5: an invocation whose polls all find the session, none of them with the
\* process id cleared or the status terminated, ends with
\* ReconciliationTimeout, once the budget has elapsed and without a
\* clear-link request; it makes at most 20 polls (budget / interval), one per
\* interval at the fastest.
C5_AtMostTwentyPolls ==
  \A i \in Invs :
    LET f == inv[i] IN
    /\ Polls(f) <= MaxPolls
    /\ (/\ Done(f) /\ Smooth(f) /\ Kills(f) = 1
        /\ \A k \in Ops(f, "get") : ~Terminated(f.log[k])) =>
         ErrorKind(f.outcome) = "ReconciliationTimeout"
    /\ (Done(f) /\ f.outcome = "Polling timeout") =>
         /\ f.elapsed >= Timeout
         /\ Clears(f) = 0
         /\ Polls(f) >= 1
         /\ Polls(f) * Interval <= f.elapsed
         /\ \A k \in Ops(f, "get") : FoundRecord(f.log[k]) /\ ~Terminated(f.log[k])

C5_Witness ==
  \E i \in Invs :
    /\ Done(inv[i]) /\ inv[i].outcome = "Polling timeout"
    /\ Polls(inv[i]) = MaxPolls
    /\ inv[i].elapsed = Timeout

\* C6 as stated: when the terminate request is accepted, no request fails
\* and the registry reports the process gone within one poll interval of the
\* signal, the invocation succeeds after exactly one poll.
C6_Original ==
  \A i \in Invs :
    LET f == inv[i] IN
    (Done(f) /\ Smooth(f) /\ ClearedWithinInterval(f)) =>
      f.outcome = "success" /\ Polls(f) = 1

\* C6: when the terminate request is accepted and the registry reports the
\* process gone less than one poll interval after the signal, the invocation
\* makes at most two polls (a second one only when the first was answered
\* before the registry reported it) and, if no request fails, it succeeds.
C6_AtMostTwoPolls ==
  \A i \in Invs :
    LET f == inv[i] IN
    ClearedWithinInterval(f) =>
      /\ Polls(f) <= 2
      /\ Polls(f) = 2 => FoundRecord(f.log[2]) /\ ~Terminated(f.log[2])
      /\ (Done(f) /\ Smooth(f)) => f.outcome = "success"

C6_Witness ==
  \E i \in Invs :
    LET f == inv[i] IN
    /\ Done(f) /\ f.outcome = "success"
    /\ ClearedWithinInterval(f)
    /\ ~f.cleanAtStart
    /\ Polls(f) = 1
    /\ f.elapsed = 0

\* C7: the poll loop returns its session exactly on a polled record whose
\* process id is absent or whose status is terminated: when it has returned,
\* the last polled record is such a record, and such a record is always the
\* last poll of the invocation and makes the loop return (no sleep, no
\* further poll, no timeout).
C7_ExitCondition ==
  \A i \in Invs :
    LET f == inv[i] IN
    /\ PollSucceeded(f) =>
         /\ Polls(f) >= 1
         /\ FoundRecord(LastPoll(f))
         /\ Terminated(LastPoll(f))
    /\ \A k \in Ops(f, "get") :
         (FoundRecord(f.log[k]) /\ Terminated(f.log[k])) =>
           /\ PollSucceeded(f)
           /\ \A j \in Ops(f, "get") : j <= k

C7_Witness ==
  \E i \in Invs :
    LET f == inv[i] IN
    /\ Done(f) /\ f.outcome = "success"
    /\ Polls(f) >= 2
    /\ LastPoll(f).pid # NoPid
    /\ LastPoll(f).status = "terminated"

\* C8: once the poll loop has returned, the invocation issues a clear-link
\* request if and only if link clearing was requested (killSessionSilently)
\* or the session snapshot it was called with carries a happySessionId,
\* whatever the registry's record says; before that it issues none; the
\* request sets happySessionId and happySessionTag to null.
C8_ClearIffRequestedOrLinked ==
  \A i \in Invs :
    LET f == inv[i] IN
    /\ PollSucceeded(f) =>
         ((Clears(f) = 1) = (f.mode = "silent" \/ f.session.happySessionId # NoLink))
    /\ ~PollSucceeded(f) => Clears(f) = 0
    /\ (f.mode = "kill" /\ f.session.happySessionId = NoLink) => Clears(f) = 0
    /\ \A k \in Ops(f, "clear") :
         /\ f.log[k].sid = f.session.claudeSessionId
         /\ f.log[k].happySessionId = NoLink
         /\ f.log[k].happySessionTag = NoLink

C8_Witness ==
  \E i \in Invs :
    LET f == inv[i] IN
    /\ f.pc = "clear"
    /\ f.mode = "kill"
    /\ f.session.happySessionId # NoLink
    /\ reg[f.session.claudeSessionId].exists
    /\ reg[f.session.claudeSessionId].happySessionId = NoLink

\* C9: a rejected clear-link request is the last request of its invocation,
\* which ends with MetadataClearFailed; the rejection changes nothing in the
\* registry and the finished invocation does nothing further, so the session
\* stays as the terminate left it, link included.
C9_NoCompensation ==
  /\ [](\A i \in Invs :
          LET f == inv[i] IN
          \A k \in Ops(f, "clear") :
            f.log[k].res = "err" =>
              /\ k = Len(f.log)
              /\ Done(f)
              /\ ErrorKind(f.outcome) = "MetadataClearFailed"
              /\ Kills(f) = 1
              /\ Clears(f) = 1)
  /\ [][\A i \in Invs :
          /\ (inv[i].pc = "clear" /\ inv'[i].pc = "done" /\ inv'[i].outcome # "success")
               => reg' = reg
          /\ (Done(inv[i]) /\ runs' = runs) => inv'[i] = inv[i]]_vars

C9_Witness ==
  \E i \in Invs :
    LET f == inv[i]
        r == reg[f.session.claudeSessionId]
    IN /\ Done(f) /\ f.outcome = "Cannot detach session"
       /\ r.exists /\ Terminated(r)
       /\ r.happySessionId # NoLink /\ r.happySessionTag # NoLink

Stall ==
  /\ \E i \in DOMAIN inv : Polling(inv[i])
  /\ \A i \in DOMAIN inv :
       /\ inv[i].pc # "poll"
       /\ inv[i].pc = "sleep" => inv[i].waited < Interval
  /\ inv' = [i \in DOMAIN inv |->
               IF Polling(inv[i])
               THEN [inv[i] EXCEPT !.elapsed = @ + SlowStep * Interval,
                                   !.waited = @ + SlowStep * Interval]
               ELSE inv[i]]
  /\ UNCHANGED <<reg, runs, others>>

NextBusy ==
  \/ \E i \in Invs, session \in Snapshots, mode \in Modes : Start(i, session, mode)
  \/ \E i \in Invs : KillReturns(i)
  \/ \E i \in Invs : GetReturns(i)
  \/ \E i \in Invs : TimerFires(i)
  \/ \E i \in Invs : ClearReturns(i)
  \/ \E s \in Sessions : ProcessExits(s)
  \/ \E s \in Sessions : RecordVanishes(s)
  \/ Stall

SpecBusy == Init /\ [][NextBusy]_vars

\* every request is answered (the client resolves or rejects it within its
\* 5000 ms timeout), every timer fires, and time passes
FairBusy ==
  /\ SpecBusy
  /\ \A i \in Invs : /\ WF_vars(KillReturns(i))
                     /\ WF_vars(GetReturns(i))
                     /\ WF_vars(TimerFires(i))
                     /\ WF_vars(ClearReturns(i))
  /\ WF_vars(Stall)

\* success and the five error kinds of the specification
FiveKinds ==
  {"success", "InvalidState", "SessionNotFound", "TerminationRequestFailed",
   "MetadataClearFailed", "ReconciliationTimeout"}

\* C11 as stated: an invocation that has ended, ended with success or with
\* one of the five error kinds.
C11_Original ==
  \A i \in Invs : Done(inv[i]) => ErrorKind(inv[i].outcome) \in FiveKinds

\* C11: an invocation, once started, runs to its end; it has an outcome when
\* and only when it has ended, the outcome stays as it is until the next call,
\* and it is success, one of the five error kinds, or the failure of a poll
\* request ('Cannot fetch session'), which is none of the five.
C11_OneTerminalOutcome ==
  /\ \A i \in Invs : Started(inv[i]) ~> Done(inv[i])
  /\ [](\A i \in Invs :
          /\ Done(inv[i]) = (inv[i].outcome # "")
          /\ Done(inv[i]) =>
               \/ ErrorKind(inv[i].outcome) \in FiveKinds
               \/ /\ inv[i].outcome = "Cannot fetch session"
                  /\ inv[i].log[Len(inv[i].log)].op = "get"
                  /\ inv[i].log[Len(inv[i].log)].res = "err")
  /\ [][\A i \in Invs :
          Done(inv[i]) /\ runs' = runs => inv'[i] = inv[i]]_vars

C11_Witness ==
  \E i \in Invs :
    /\ Done(inv[i])
    /\ inv[i].outcome = "Cannot fetch session"
    /\ Polls(inv[i]) = 2
    /\ runs = 2

(* --------------------------- clean hand-over --------------------------- *)

\* the invocation clears the link: killSessionSilently, or killSession of a
\* session whose snapshot carries a link
WithLinkClearing(f) == ShouldClear(f.mode, f.session)

\* the first poll of f was answered with a record whose pid is cleared
ClearedOnFirstPoll(f) ==
  /\ Len(f.log) >= 2
  /\ FoundRecord(f.log[2])
  /\ f.log[2].pid = NoPid

\* C12: when the first poll after the signal shows the process id cleared, an
\* invocation with link clearing polls once, asks for the link to be cleared
\* and, once the registry has accepted that, has returned successfully; the
\* record of the session, as a getSession from then on reads it, has no
\* process id, no happySessionId and no happySessionTag.
C12_CleanAfterSuccess ==
  \A i \in Invs :
    LET f == inv[i]
        r == reg[f.session.claudeSessionId]
    IN ClearedOnFirstPoll(f) /\ WithLinkClearing(f) =>
         /\ Polls(f) = 1
         /\ Len(f.log) = 3
         /\ f.log[3].op = "clear"
         /\ f.log[3].res = "pending" => f.pc = "clear"
         /\ f.log[3].res = "ok" =>
              /\ Done(f)
              /\ f.outcome = "success"
              /\ r.exists => /\ r.pid = NoPid
                             /\ r.happySessionId = NoLink
                             /\ r.happySessionTag = NoLink

C12_Witness ==
  \E i \in Invs :
    LET f == inv[i]
        r == reg[f.session.claudeSessionId]
    IN /\ ClearedOnFirstPoll(f)
       /\ f.mode = "silent"
       /\ f.session.happySessionId = "h1"
       /\ f.log[1].targetPid = PidOf["s1"]
       /\ Done(f)
       /\ f.outcome = "success"
       /\ r.exists /\ r.pid = NoPid /\ r.happySessionId = NoLink /\ r.happySessionTag = NoLink

(* ------------------------ concurrent invocations ----------------------- *)

\* Two invocations in progress at once, for the same session or for two
\* sessions, interleaved at every request and every sleep, on a busy extension
\* host.

\* the session argument as the tree view hands it over for a running Happy
\* session: the pid of the session's process and its link
LiveSnapshots == {x \in Snapshots : x.pid = PidOf[x.claudeSessionId] /\ x.happySessionId = "h1"}

InitConc ==
  /\ reg \in {g \in [Sessions -> Running] :
                \A s \in Sessions : g[s].pid = PidOf[s] /\ g[s].happySessionId = "h1"}
  /\ inv = [i \in Callers |-> IdleFrame]
  /\ runs = 0
  /\ cmd = NoCommand
  /\ dev = NoDevice
  /\ web = NoWelcome
  /\ view = NoView
  /\ eink = NoEink

\* each call is made once, the first for session s1, the other for either
\* session; a process exits, and a record is lost, once an invocation for its
\* session has started
NextConc ==
  \/ \E session \in LiveSnapshots, mode \in Modes :
       /\ inv[1].pc = "idle"
       /\ session.claudeSessionId = "s1"
       /\ Start(1, session, mode)
  \/ \E session \in LiveSnapshots, mode \in Modes :
       /\ inv[2].pc = "idle"
       /\ Start(2, session, mode)
  \/ \E i \in Callers : KillReturns(i)
  \/ \E i \in Callers : GetReturns(i)
  \/ \E i \in Callers : TimerFires(i)
  \/ \E i \in Callers : ClearReturns(i)
  \/ \E i \in Callers : Started(inv[i]) /\ ProcessExits(inv[i].session.claudeSessionId)
  \/ \E i \in Callers : Started(inv[i]) /\ RecordVanishes(inv[i].session.claudeSessionId)
  \/ Stall

SpecConc == InitConc /\ [][NextConc]_vars

FairConc ==
  /\ SpecConc
  /\ \A i \in Callers : /\ WF_vars(KillReturns(i))
                        /\ WF_vars(GetReturns(i))
                        /\ WF_vars(TimerFires(i))
                        /\ WF_vars(ClearReturns(i))
  /\ WF_vars(Stall)

\* two calls for one session, both ended
BothDoneOn(i, j, s) ==
  /\ i # j
  /\ Done(inv[i]) /\ inv[i].session.claudeSessionId = s
  /\ Done(inv[j]) /\ inv[j].session.claudeSessionId = s

\* C13 as stated: when two invocations for one session have ended and the
\* registry accepted every request of both, the record has no process id and
\* no link.
C13_Original ==
  \A i, j \in Callers, s \in Sessions :
    BothDoneOn(i, j, s) /\ Smooth(inv[i]) /\ Smooth(inv[j]) =>
      /\ reg[s].pid = NoPid
      /\ reg[s].happySessionId = NoLink
      /\ reg[s].happySessionTag = NoLink

\* C13: two invocations for one session, interleaved at will, both run to an
\* end; an invocation that returned successfully leaves the record, as long as
\* the registry has it, with the process reported gone (pid absent or status
\* terminated) and, having cleared the link, with no link.  An invocation that
\* timed out or had a request fail leaves the record as the other one and the
\* registry made it.
C13_NoCorruption ==
  /\ \A i \in Callers : Started(inv[i]) ~> Done(inv[i])
  /\ [](\A i, j \in Callers, s \in Sessions :
          BothDoneOn(i, j, s) /\ inv[i].outcome = "success" /\ reg[s].exists =>
            /\ Terminated(reg[s])
            /\ WithLinkClearing(inv[i]) =>
                 /\ reg[s].happySessionId = NoLink
                 /\ reg[s].happySessionTag = NoLink)

\* both calls began before the other had cleaned the record, and both succeeded
C13_Witness ==
  /\ BothDoneOn(1, 2, "s1")
  /\ \A i \in Callers : /\ inv[i].outcome = "success"
                        /\ ~inv[i].cleanAtStart
                        /\ Polls(inv[i]) = 2
                        /\ Clears(inv[i]) = 1
  /\ reg["s1"].exists /\ reg["s1"].pid = NoPid /\ reg["s1"].happySessionId = NoLink

\* the step is one of call i: it issued a request or took an answer
Stepped(i) == inv'[i].log # inv[i].log \/ inv'[i].pc # inv[i].pc

\* C14: an invocation names its own session in every request; the link of a
\* session's record is changed only by the step of an invocation for that
\* session whose clear-link request is accepted; and the step of one
\* invocation changes neither another invocation nor the record of a session
\* other than its own.
C14_NoSharedState ==
  /\ [](\A i \in Callers : \A k \in DOMAIN inv[i].log :
          inv[i].log[k].sid = inv[i].session.claudeSessionId)
  /\ [][\A s \in Sessions :
          /\ reg'[s].exists
          /\ <<reg'[s].happySessionId, reg'[s].happySessionTag>> #
               <<reg[s].happySessionId, reg[s].happySessionTag>>
          => \E i \in Callers : /\ inv[i].session.claudeSessionId = s
                                /\ inv[i].pc = "clear"
                                /\ inv'[i] = ClearAccepted(inv[i])]_vars
  /\ [][\A i \in Callers :
          Stepped(i) =>
            /\ \A j \in Callers \ {i} : inv'[j] = inv[j]
            /\ \A s \in Sessions \ {inv'[i].session.claudeSessionId} : reg'[s] = reg[s]]_vars

\* two calls for two sessions in progress at once, each with its process
\* signalled and seen gone on its second poll, each waiting for its link to be
\* cleared
C14_Witness ==
  /\ inv[1].pc = "clear" /\ inv[1].session.claudeSessionId = "s1"
  /\ inv[2].pc = "clear" /\ inv[2].session.claudeSessionId = "s2"
  /\ \A i \in Callers : Polls(inv[i]) = 2 /\ inv[i].log[Len(inv[i].log)].res = "pending"
  /\ \A s \in Sessions : reg[s].exists /\ Terminated(reg[s]) /\ reg[s].happySessionId = "h1"

(* ----------------------- resume path and kill path --------------------- *)

\* killSession (call 1) and killSessionSilently (call 2) are called with the
\* same session at the same moment, and the registry answers the two alike:
\* it accepts both requests of a kind or rejects both, and both polls read
\* the same record.

PairStart(session) ==
  /\ \A i \in Callers : inv[i].pc \in {"idle", "done"}
  /\ runs < MaxRuns
  /\ runs' = runs + 1
  /\ inv' = [i \in Callers |->
               Enter([IdleFrame EXCEPT
                        !.mode = IF i = 1 THEN "kill" ELSE "silent",
                        !.session = session,
                        !.cleanAtStart = Clean(reg[session.claudeSessionId]),
                        !.prevCleanOk = (inv[i].outcome = "success" /\ inv[i].cleanAtStart)])]
  /\ UNCHANGED <<reg, others>>

\* every call in state pc takes the step that operator step describes
AllAt(pc, step(_)) ==
  /\ \E i \in Callers : inv[i].pc = pc
  /\ inv' = [i \in Callers |-> IF inv[i].pc = pc THEN step(inv[i]) ELSE inv[i]]

PairKillReturns ==
  /\ \E s \in Sessions :
       /\ \A i \in Callers : inv[i].pc = "kill" => inv[i].log[Len(inv[i].log)].sid = s
       /\ \/ reg[s].exists /\ AllAt("kill", LAMBDA f : KillAccepted(f, reg[s]))
          \/ AllAt("kill", KillRejected)
  /\ UNCHANGED <<reg, runs, others>>

PairGetReturns ==
  /\ \E s \in Sessions :
       /\ \A i \in Callers : inv[i].pc = "poll" => inv[i].log[Len(inv[i].log)].sid = s
       /\ \/ AllAt("poll", FetchFailed)
          \/ AllAt("poll", LAMBDA f : IF reg[s].exists THEN Polled(f, reg[s])
                                                        ELSE PolledMissing(f))
  /\ UNCHANGED <<reg, runs, others>>

PairTimerFires ==
  /\ \A i \in Callers : inv[i].pc = "sleep" => inv[i].waited >= Interval
  /\ AllAt("sleep", EnterLoop)
  /\ UNCHANGED <<reg, runs, others>>

PairClearReturns ==
  /\ \E s \in Sessions :
       /\ \A i \in Callers : inv[i].pc = "clear" => inv[i].log[Len(inv[i].log)].sid = s
       /\ \/ /\ reg[s].exists
             /\ \E i \in Callers :
                  /\ inv[i].pc = "clear"
                  /\ reg' = [reg EXCEPT
                               ![s].happySessionId = inv[i].log[Len(inv[i].log)].happySessionId,
                               ![s].happySessionTag = inv[i].log[Len(inv[i].log)].happySessionTag]
             /\ AllAt("clear", ClearAccepted)
          \/ /\ AllAt("clear", ClearRejected)
             /\ UNCHANGED reg
  /\ UNCHANGED <<runs, others>>

NextPair ==
  \/ \E session \in LiveSnapshots : PairStart(session)
  \/ PairKillReturns
  \/ PairGetReturns
  \/ PairTimerFires
  \/ PairClearReturns
  \/ \E s \in Sessions : ProcessExits(s)
  \/ \E s \in Sessions : RecordVanishes(s)
  \/ Tick

SpecPair == Init /\ [][NextPair]_vars

Show(c, message) == [c EXCEPT !.shown = Append(@, message)]

NewCommand(kind, item) ==
  [NoCommand EXCEPT !.kind = kind, !.item = item, !.n = cmd.n + 1]

NeedsMoveAnyHappy(item) == TruthyLink(item.session.happySessionId)

\* isHappySession && isActive && session.pid
NeedsMove(item) ==
  /\ TruthyLink(item.session.happySessionId)
  /\ item.status \in {"active", "happy-active"}
  /\ ~FalsyPid(item.session.pid)

\* createTerminal, sendText(`claude --resume ${claudeSessionId}`), show, message
LaunchTerminal(c) ==
  LET s == c.item.session.claudeSessionId
  IN [Show(c, "Resuming session in terminal") EXCEPT
        !.pc = "done",
        !.terminals = Append(@, <<"claude --resume", s>>),
        !.aliveAtLaunch = reg[s].exists /\ ~Terminated(reg[s])]

\* happySessions.resumeSession is invoked
ResumeCommand(item) ==
  /\ cmd.pc \in {"idle", "done"}
  /\ cmd.n < MaxCommands
  /\ IF item = NoItem
     THEN /\ cmd' = [Show(NewCommand("resume", item), "No session selected") EXCEPT !.pc = "done"]
          /\ UNCHANGED <<inv, runs>>
     ELSE IF NeedsMove(item)
     THEN /\ cmd' = [Show(NewCommand("resume", item), "Moving session from phone to VS Code") EXCEPT
                       !.pc = "moving", !.calls = 1]
          /\ Call(1, item.session, "silent")
     ELSE /\ cmd' = LaunchTerminal(NewCommand("resume", item))
          /\ UNCHANGED <<inv, runs>>
  /\ UNCHANGED <<reg, dev, web, view, eink>>

ResumeAbortsOnFailure(c) ==
  IF inv[1].outcome = "success"
  THEN LaunchTerminal(Show(c, "Session terminated. Ready to resume locally."))
  ELSE [Show(c, "Failed to kill active session") EXCEPT !.pc = "done"]

\* after await killSessionSilently: its success message, or the warning of
\* the catch, and then the terminal in both cases
AfterMove(c) ==
  IF inv[1].outcome = "success"
  THEN LaunchTerminal(Show(c, "Session terminated. Ready to resume locally."))
  ELSE LaunchTerminal(Show(c, "Failed to kill active session. Attempting to resume anyway."))

\* killSessionSilently has returned or thrown
ResumeContinues ==
  /\ cmd.pc = "moving"
  /\ Done(inv[1])
  /\ cmd' = AfterMove(cmd)
  /\ UNCHANGED <<reg, inv, runs, dev, web, view, eink>>

\* happySessions.killSession is invoked
KillCommand(item) ==
  /\ cmd.pc \in {"idle", "done"}
  /\ cmd.n < MaxCommands
  /\ IF item = NoItem
     THEN cmd' = [Show(NewCommand("kill", item), "No session selected") EXCEPT !.pc = "done"]
     ELSE cmd' = [Show(NewCommand("kill", item), "Are you sure you want to kill session?") EXCEPT
                    !.pc = "dialog"]
  /\ UNCHANGED <<reg, inv, runs, dev, web, view, eink>>

ConfirmedAlways(result) == TRUE

\* result === 'Kill Session'
Confirmed(result) == result = "Kill Session"

\* the modal dialog is answered or dismissed
DialogAnswered(result) ==
  /\ cmd.pc = "dialog"
  /\ IF Confirmed(result)
     THEN /\ cmd' = [cmd EXCEPT !.pc = "killing", !.choice = result, !.calls = 1]
          /\ Call(1, cmd.item.session, "kill")
     ELSE /\ cmd' = [cmd EXCEPT !.pc = "done", !.choice = result]
          /\ UNCHANGED <<inv, runs>>
  /\ UNCHANGED <<reg, dev, web, view, eink>>

\* after await killSession: the message and the refresh, or the catch
AfterKill(c) ==
  IF inv[1].outcome = "success"
  THEN [Show(c, "Session killed") EXCEPT !.pc = "done", !.refreshes = @ + 1]
  ELSE [Show(c, "Failed to kill session") EXCEPT !.pc = "done"]

\* killSession has returned or thrown
KillContinues ==
  /\ cmd.pc = "killing"
  /\ Done(inv[1])
  /\ cmd' = AfterKill(cmd)
  /\ UNCHANGED <<reg, inv, runs, dev, web, view, eink>>

NextCmd ==
  \/ \E item \in Items : ResumeCommand(item)
  \/ ResumeContinues
  \/ \E item \in Items : KillCommand(item)
  \/ \E result \in {"Kill Session", Dismissed} : DialogAnswered(result)
  \/ KillContinues
  \/ KillReturns(1)
  \/ GetReturns(1)
  \/ TimerFires(1)
  \/ ClearReturns(1)
  \/ \E s \in Sessions : ProcessExits(s)
  \/ \E s \in Sessions : RecordVanishes(s)
  \/ Stall

SpecCmd == Init /\ [][NextCmd]_vars

Range(q) == {q[k] : k \in DOMAIN q}

\* the resume command is moving, or has moved, a running Happy session
Moves == cmd.kind = "resume" /\ cmd.item # NoItem /\ NeedsMove(cmd.item)

\* C16: when an active Happy session with a pid is resumed, a terminal runs
\* `claude --resume` only if the terminate request was accepted, a poll saw
\* the pid cleared or the status terminated, and the clear-link request was
\* accepted; and the registry did not report the remote process running at
\* the moment the terminal was launched.
C16_LaunchOnlyAfterCleanup ==
  Moves /\ cmd.terminals # <<>> =>
    /\ \E k \in DOMAIN inv[1].log :
         inv[1].log[k].op = "kill" /\ inv[1].log[k].res = "ok"
    /\ \E k \in DOMAIN inv[1].log :
         FoundRecord(inv[1].log[k]) /\ Predicate(inv[1].log[k])
    /\ \E k \in DOMAIN inv[1].log :
         inv[1].log[k].op = "clear" /\ inv[1].log[k].res = "ok"
    /\ ~cmd.aliveAtLaunch

\* C17: during a kill command a reconcile call is made, and a request
\* issued, only once the dialog was answered 'Kill Session'; with no item,
\* or with the dialog dismissed, no call is made, nothing is refreshed and no
\* 'killed' message is shown; 'killed' is shown exactly when the call has
\* returned successfully, and a failure message when it has thrown.
C17_KillOnlyConfirmed ==
  /\ [](cmd.kind = "kill" =>
          /\ cmd.calls = 1 => cmd.choice = "Kill Session" /\ cmd.item # NoItem
          /\ cmd.item = NoItem \/ cmd.choice = Dismissed =>
               /\ cmd.calls = 0
               /\ cmd.refreshes = 0
               /\ "Session killed" \notin Range(cmd.shown)
          /\ "Session killed" \in Range(cmd.shown) =>
               cmd.calls = 1 /\ Done(inv[1]) /\ inv[1].outcome = "success"
          /\ cmd.pc = "done" /\ cmd.calls = 1 =>
               /\ ("Session killed" \in Range(cmd.shown)) = (inv[1].outcome = "success")
               /\ ("Failed to kill session" \in Range(cmd.shown)) = (inv[1].outcome # "success"))
  /\ [][cmd'.kind = "kill" /\ (runs' # runs \/ inv'[1].log # inv[1].log) =>
          /\ cmd'.choice = "Kill Session"
          /\ cmd'.calls = 1
          /\ inv'[1].mode = "kill"
          /\ inv'[1].session = cmd'.item.session]_vars

C17_Witness ==
  /\ cmd.kind = "kill"
  /\ cmd.pc = "done"
  /\ cmd.choice = "Kill Session"
  /\ cmd.shown = <<"Are you sure you want to kill session?", "Session killed">>
  /\ cmd.refreshes = 1
  /\ Kills(inv[1]) = 1 /\ Polls(inv[1]) = 2 /\ Clears(inv[1]) = 1

\* every request of the reconcile call is answered, its timers fire, time
\* passes, and the command goes on once the call it awaits has ended
FairCmd ==
  /\ SpecCmd
  /\ WF_vars(KillReturns(1))
  /\ WF_vars(GetReturns(1))
  /\ WF_vars(TimerFires(1))
  /\ WF_vars(ClearReturns(1))
  /\ WF_vars(Stall)
  /\ WF_vars(ResumeContinues)
  /\ WF_vars(KillContinues)

\* resumeSessionInTerminal was called with a session
Resumes == cmd.kind = "resume" /\ cmd.item # NoItem

\* the session is not a Happy session, or is not active, or has no pid
Vanilla(item) ==
  \/ item.session.happySessionId = NoLink
  \/ item.status \notin {"active", "happy-active"}
  \/ item.session.pid \in {NoPid, 0}

\* C24: a resume of a session that has no happySessionId, or whose status is
\* neither 'active' nor 'happy-active', or that has no pid, launches the
\* terminal in the same step: no reconcile call is made, no request is
\* issued, and the registry is as it was.
C24_VanillaResumesDirectly ==
  /\ [](Resumes /\ Vanilla(cmd.item) =>
          /\ cmd.calls = 0
          /\ cmd.pc = "done"
          /\ cmd.terminals = <<<<"claude --resume", cmd.item.session.claudeSessionId>>>>
          /\ cmd.shown = <<"Resuming session in terminal">>)
  /\ [][cmd'.n # cmd.n /\ cmd'.kind = "resume" /\ cmd'.item # NoItem /\ Vanilla(cmd'.item) =>
          /\ reg' = reg
          /\ inv' = inv
          /\ runs' = runs]_vars

\* a Happy session that is no longer active is resumed while the registry
\* still has its record, and nothing was asked of the registry
C24_Witness ==
  /\ Resumes
  /\ cmd.item.session.happySessionId = "h1"
  /\ cmd.item.session.pid = PidOf[cmd.item.session.claudeSessionId]
  /\ cmd.item.status = "terminated"
  /\ cmd.pc = "done"
  /\ Len(cmd.terminals) = 1
  /\ runs = 0
  /\ inv[1] = IdleFrame
  /\ reg[cmd.item.session.claudeSessionId].exists

CredentialFiles == [env : BOOLEAN, settings : BOOLEAN]

\* cancelTrialVerification
CancelTrialVerification(d) ==
  [d EXCEPT !.trialVerificationTimer = FALSE,
            !.timers = IF d.trialVerificationTimer THEN @ - 1 ELSE @,
            !.trialVerificationAttemptsRemaining = 0]

ScheduleTrialVerificationUnguarded(d) ==
  IF d.trialConfirmed THEN d
  ELSE LET d1 == IF d.trialVerificationAttemptsRemaining <= 0
                 THEN [d EXCEPT !.trialVerificationAttemptsRemaining = TRIAL_STATUS_RETRY_ATTEMPTS,
                                !.followUps = 0]
                 ELSE d
       IN [d1 EXCEPT !.trialVerificationTimer = TRUE, !.timers = @ + 1, !.waited = 0]

\* scheduleTrialVerification; a verification round begins where the attempts
\* are set afresh
ScheduleTrialVerification(d) ==
  IF d.trialConfirmed THEN d
  ELSE LET d1 == IF d.trialVerificationAttemptsRemaining <= 0
                 THEN [d EXCEPT !.trialVerificationAttemptsRemaining = TRIAL_STATUS_RETRY_ATTEMPTS,
                                !.followUps = 0]
                 ELSE d
       IN IF d1.trialVerificationTimer THEN d1
          ELSE [d1 EXCEPT !.trialVerificationTimer = TRUE, !.timers = @ + 1, !.waited = 0]

\* the catch of checkTrialStatus
CheckTrialStatusFailed(d) ==
  CancelTrialVerification(
    [d EXCEPT !.trialActive = FALSE, !.trialConfirmed = FALSE,
              !.trialStatusSources = [env |-> FALSE, settings |-> FALSE]])

\* checkTrialStatus(scheduleFollowUp)
CheckTrialStatus(d, scheduleFollowUp) ==
  LET hasEnvToken == d.files.env
      hasSettingsToken == d.files.settings
      d1 == [d EXCEPT !.trialStatusSources = [env |-> hasEnvToken, settings |-> hasSettingsToken],
                      !.trialActive = hasEnvToken \/ hasSettingsToken,
                      !.trialConfirmed = hasEnvToken /\ hasSettingsToken]
      needsFollowUp == d1.trialActive /\ ~d1.trialConfirmed
  IN IF needsFollowUp
     THEN IF scheduleFollowUp THEN ScheduleTrialVerification(d1) ELSE d1
     ELSE CancelTrialVerification(d1)

RunTrialVerificationUncounted(d, failed) ==
  LET d0 == [d EXCEPT !.trialVerificationTimer = FALSE, !.timers = @ - 1]
  IN IF d0.trialConfirmed
     THEN [d0 EXCEPT !.trialVerificationAttemptsRemaining = 0]
     ELSE IF d0.trialVerificationAttemptsRemaining <= 0 THEN d0
     ELSE LET d1 == [d0 EXCEPT !.followUps = @ + 1, !.gap = d.waited]
              d2 == IF failed THEN CheckTrialStatusFailed(d1) ELSE CheckTrialStatus(d1, FALSE)
          IN IF ~d2.trialConfirmed /\ d2.trialVerificationAttemptsRemaining > 0
             THEN ScheduleTrialVerification(d2)
             ELSE d2

\* runTrialVerification; failed: the status check inside it threw
RunTrialVerification(d, failed) ==
  LET d0 == [d EXCEPT !.trialVerificationTimer = FALSE, !.timers = @ - 1]
  IN IF d0.trialConfirmed
     THEN [d0 EXCEPT !.trialVerificationAttemptsRemaining = 0]
     ELSE IF d0.trialVerificationAttemptsRemaining <= 0 THEN d0
     ELSE LET d1 == [d0 EXCEPT !.trialVerificationAttemptsRemaining = @ - 1,
                               !.followUps = @ + 1, !.gap = d.waited]
              d2 == IF failed THEN CheckTrialStatusFailed(d1) ELSE CheckTrialStatus(d1, FALSE)
          IN IF ~d2.trialConfirmed /\ d2.trialVerificationAttemptsRemaining > 0
             THEN ScheduleTrialVerification(d2)
             ELSE d2

\* new WelcomeViewProvider(...): the constructor checks the trial status
InitTrial ==
  /\ reg = [s \in Sessions |-> Gone]
  /\ inv = [i \in Callers |-> IdleFrame]
  /\ runs = 0
  /\ cmd = NoCommand
  /\ \E f \in CredentialFiles :
       dev = [CheckTrialStatus([NoDevice EXCEPT !.files = f], TRUE) EXCEPT !.last = "check"]
  /\ web = NoWelcome
  /\ view = NoView
  /\ eink = NoEink

\* a credential file is written or removed
FilesChange(f) ==
  /\ f # dev.files
  /\ dev' = [dev EXCEPT !.files = f, !.last = "files"]
  /\ UNCHANGED <<reg, inv, runs, cmd, web, view, eink>>

\* checkTrialStatus() from the refresh command, the 'checkStatus' message,
\* the view becoming visible, or the end of startTrial / stopTrial
StatusCheck(failed) ==
  /\ dev' = [(IF failed THEN CheckTrialStatusFailed(dev) ELSE CheckTrialStatus(dev, TRUE))
               EXCEPT !.last = "check"]
  /\ UNCHANGED <<reg, inv, runs, cmd, web, view, eink>>

\* the verification timer fires
VerificationTimerFires(failed) ==
  /\ dev.trialVerificationTimer
  /\ dev.waited >= TRIAL_STATUS_RETRY_INTERVAL_MS
  /\ dev' = [RunTrialVerification(dev, failed) EXCEPT !.last = "followup"]
  /\ UNCHANGED <<reg, inv, runs, cmd, web, view, eink>>

TrialStep == TRIAL_STATUS_RETRY_INTERVAL_MS \div TicksPerInterval

\* time passes; the timer fires at most MaxJitter steps late
TrialTick ==
  /\ dev.trialVerificationTimer
  /\ dev.waited < TRIAL_STATUS_RETRY_INTERVAL_MS + MaxJitter * TrialStep
  /\ dev' = [dev EXCEPT !.waited = @ + TrialStep, !.last = "tick"]
  /\ UNCHANGED <<reg, inv, runs, cmd, web, view, eink>>

NextTrial ==
  \/ \E f \in CredentialFiles : FilesChange(f)
  \/ \E failed \in BOOLEAN : StatusCheck(failed)
  \/ \E failed \in BOOLEAN : VerificationTimerFires(failed)
  \/ TrialTick

SpecTrial == InitTrial /\ [][NextTrial]_vars

\* the last status check found the trial active but not confirmed
NeedsFollowUp == dev.trialActive /\ ~dev.trialConfirmed

\* C19: a status check that finds the trial active but not confirmed leaves a
\* follow-up check scheduled; every follow-up check runs when its timer has
\* waited the 5000 ms retry interval, started by the check before it; a
\* verification round has at most 6 follow-up checks, each using up one of
\* its 6 attempts; and once a check found both sources present no follow-up
\* is pending and no attempt is left.
C19_BoundedRetries ==
  /\ [](/\ dev.followUps <= TRIAL_STATUS_RETRY_ATTEMPTS
        /\ dev.trialVerificationAttemptsRemaining \in 0 .. TRIAL_STATUS_RETRY_ATTEMPTS
        /\ dev.trialVerificationTimer =>
             /\ NeedsFollowUp
             /\ dev.trialVerificationAttemptsRemaining > 0
             /\ dev.followUps + dev.trialVerificationAttemptsRemaining = TRIAL_STATUS_RETRY_ATTEMPTS
        /\ dev.trialConfirmed =>
             /\ ~dev.trialVerificationTimer
             /\ dev.trialVerificationAttemptsRemaining = 0)
  /\ [][dev'.last = "check" /\ dev'.trialActive /\ ~dev'.trialConfirmed =>
          dev'.trialVerificationTimer]_vars
  /\ [][dev'.followUps = dev.followUps + 1 =>
          /\ dev.trialVerificationTimer
          /\ dev'.gap >= TRIAL_STATUS_RETRY_INTERVAL_MS
          /\ dev'.trialVerificationTimer => dev'.waited = 0]_vars

\* a round used up: six follow-up checks, none of which found both sources
C19_Witness ==
  /\ dev.followUps = TRIAL_STATUS_RETRY_ATTEMPTS
  /\ dev.trialVerificationAttemptsRemaining = 0
  /\ ~dev.trialVerificationTimer
  /\ NeedsFollowUp
  /\ dev.last = "followup"
  /\ dev.gap = TRIAL_STATUS_RETRY_INTERVAL_MS

\* C28: the trial is active when a source has the token and confirmed when
\* both have, so confirmed implies active; the attempts remaining lie between
\* 0 and 6; at most one timeout is pending, and it is the one the timer field
\* holds; and whenever the last status check found the trial confirmed or
\* inactive, no timer is pending and no attempt remains.
C28_TrialTracking ==
  /\ dev.trialActive = (dev.trialStatusSources.env \/ dev.trialStatusSources.settings)
  /\ dev.trialConfirmed = (dev.trialStatusSources.env /\ dev.trialStatusSources.settings)
  /\ dev.trialConfirmed => dev.trialActive
  /\ dev.trialVerificationAttemptsRemaining \in 0 .. TRIAL_STATUS_RETRY_ATTEMPTS
  /\ dev.timers \in {0, 1}
  /\ dev.trialVerificationTimer = (dev.timers = 1)
  /\ dev.trialConfirmed \/ ~dev.trialActive =>
       /\ ~dev.trialVerificationTimer
       /\ dev.timers = 0
       /\ dev.trialVerificationAttemptsRemaining = 0

\* two follow-up checks found one source only; then a status check, made
\* while the third timer was pending, found both and cleared the timer
C28_Witness ==
  /\ dev.last = "check"
  /\ dev.trialConfirmed
  /\ dev.followUps = 2
  /\ dev.waited > 0
  /\ dev.timers = 0
  /\ dev.trialVerificationAttemptsRemaining = 0

(* -------------------------- update-job monitor ------------------------- *)

\* runSystemUpdate with startUpdateStatusMonitoringSystemd, and the other
\* operations that write _isProcessing: checkForUpdates, startTrial and
\* stopTrial.  Each webview message starts its handler at once; a handler
\* runs up to its next await.  One call of each operation and one monitor
\* chain are followed at a time.  The update job is the systemd unit
\* distiller-apply-*: none, running, exited or failed (and then collected).

notDev == <<reg, inv, runs, cmd, web, view, eink>>

Refused(d) == [d EXCEPT !.last = "refused"]

\* startUpdateStatusMonitoringSystemd: setTimeout(checkStatus, 2000)
StartMonitor(d) == [d EXCEPT !.mon = [pc |-> "timer", checkCount |-> 0, how |-> ""]]

MonitorLive == dev.mon.pc \in {"timer", "checking"}

\* the modal dialog of runSystemUpdate is open: the webview takes no click
DialogOpen == dev.upd = "dialog"

\* message 'installUpdates': runSystemUpdate up to await execAsync(list-units)
InstallUpdates ==
  /\ dev.upd = "idle"
  /\ ~MonitorLive
  /\ dev' = IF dev.isProcessing THEN Refused(dev)
            ELSE [dev EXCEPT !.upd = "listing", !.last = "install"]
  /\ UNCHANGED notDev

\* the catch of runSystemUpdate
ScheduleFailed(d) ==
  [d EXCEPT !.isProcessing = FALSE, !.updateStatus = "", !.upd = "idle", !.last = "catch"]

\* list-units returned: attach to the listed unit, or ask the user
ListUnitsReturns(failed) ==
  /\ dev.upd = "listing"
  /\ dev' = IF failed THEN ScheduleFailed(dev)
            ELSE IF dev.unit # "none"
            THEN StartMonitor([dev EXCEPT !.isProcessing = TRUE, !.updateStatus = "running",
                                          !.upd = "idle", !.last = "attach"])
            ELSE [dev EXCEPT !.upd = "dialog", !.last = "ask"]
  /\ UNCHANGED notDev

ProceedsUnlessCancel(choice) == choice # "Cancel"

\* choice !== 'Install Now' returns: any other answer, or none, cancels
Proceeds(choice) == choice = "Install Now"

\* the modal dialog is answered; the answer is kept in last
InstallDialogAnswered(choice) ==
  /\ dev.upd = "dialog"
  /\ dev' = IF Proceeds(choice)
            THEN [dev EXCEPT !.isProcessing = TRUE, !.updateStatus = "starting",
                             !.upd = "scheduling", !.last = choice]
            ELSE [dev EXCEPT !.upd = "idle", !.last = choice]
  /\ UNCHANGED notDev

\* systemd-run returned: the unit runs and the monitor starts, or the catch
ScheduleReturns(failed) ==
  /\ dev.upd = "scheduling"
  /\ dev' = IF failed THEN ScheduleFailed(dev)
            ELSE StartMonitor([dev EXCEPT !.upd = "idle", !.unit = "running", !.last = "scheduled"])
  /\ UNCHANGED notDev

\* a timer of the monitor fires: checkCount++ and systemctl show is awaited
MonitorTimerFires ==
  /\ dev.mon.pc = "timer"
  /\ dev' = [dev EXCEPT !.mon.pc = "checking", !.mon.checkCount = @ + 1, !.last = "timer"]
  /\ UNCHANGED notDev

\* SubState of systemctl show for the unit; a collected unit shows as dead
SubState(unit) == IF unit = "none" THEN "dead" ELSE unit

\* the end of checkStatus after a check that did not see the job finished
AfterCheck(d) ==
  IF d.isProcessing /\ d.mon.checkCount < maxChecks
  THEN [d EXCEPT !.mon.pc = "timer"]
  ELSE IF d.mon.checkCount >= maxChecks
  THEN [d EXCEPT !.isProcessing = FALSE, !.updateStatus = "timeout",
                 !.mon.pc = "stopped", !.mon.how = "timeout"]
  ELSE [d EXCEPT !.mon.pc = "stopped", !.mon.how = "abandoned"]

\* checkStatus from the answer of systemctl show on; code: ExecMainStatus
Checked(d, failed, code) ==
  LET sub == SubState(d.unit)
  IN IF failed THEN AfterCheck(d)
     ELSE IF sub \in {"dead", "exited", "failed"}
     THEN IF code = 0 /\ sub # "failed"
          THEN [d EXCEPT !.isProcessing = FALSE, !.updateStatus = "",
                         !.mon.pc = "stopped", !.mon.how = "completed"]
          ELSE [d EXCEPT !.isProcessing = FALSE, !.updateStatus = sub,
                         !.mon.pc = "stopped", !.mon.how = "failed"]
     ELSE AfterCheck([d EXCEPT !.updateStatus = sub])

CheckReturns(failed, code) ==
  /\ dev.mon.pc = "checking"
  /\ dev' = [Checked(dev, failed, code) EXCEPT !.last = "checked"]
  /\ UNCHANGED notDev

\* the update job ends
UnitEnds(sub) ==
  /\ dev.unit = "running"
  /\ dev' = [dev EXCEPT !.unit = sub, !.last = "unit"]
  /\ UNCHANGED notDev

\* systemd collects the ended unit (systemd-run --collect)
UnitCollected ==
  /\ dev.unit \in {"exited", "failed"}
  /\ dev' = [dev EXCEPT !.unit = "none", !.last = "unit"]
  /\ UNCHANGED notDev

\* message 'checkUpdates': checkForUpdates up to await checkForActiveJobs()
CheckUpdates ==
  /\ dev.chk = "idle"
  /\ ~DialogOpen
  /\ dev' = IF dev.isProcessing THEN Refused(dev)
            ELSE [dev EXCEPT !.chk = "probing", !.last = "check-updates"]
  /\ UNCHANGED notDev

\* checkForActiveJobs returned (false when list-units failed)
ProbeReturns(failed) ==
  /\ dev.chk = "probing"
  /\ dev' = IF ~failed /\ dev.unit # "none"
            THEN [dev EXCEPT !.updateStatus = "busy", !.chk = "idle", !.last = "busy"]
            ELSE [dev EXCEPT !.isProcessing = TRUE, !.updateStatus = "checking",
                             !.chk = "listing", !.last = "checking"]
  /\ UNCHANGED notDev

\* distiller-update list returned or failed: the finally of checkForUpdates
UpdateListReturns ==
  /\ dev.chk = "listing"
  /\ dev' = [dev EXCEPT !.isProcessing = FALSE, !.updateStatus = "", !.chk = "idle",
                        !.last = "listed"]
  /\ UNCHANGED notDev

\* message 'startTrial' or 'stopTrial': the script is spawned
TrialOperation ==
  /\ dev.op = "idle"
  /\ ~DialogOpen
  /\ dev' = IF dev.isProcessing THEN Refused(dev)
            ELSE [dev EXCEPT !.isProcessing = TRUE, !.op = "running", !.last = "trial"]
  /\ UNCHANGED notDev

\* the script closes; with code 0 the trial status is checked
TrialOperationCloses(code) ==
  /\ dev.op = "running"
  /\ dev' = LET d == [dev EXCEPT !.isProcessing = FALSE, !.op = "idle", !.last = "closed"]
            IN IF code = 0 THEN [CheckTrialStatus(d, TRUE) EXCEPT !.last = "closed"] ELSE d
  /\ UNCHANGED notDev

InitMon ==
  /\ reg = [s \in Sessions |-> Gone]
  /\ inv = [i \in Callers |-> IdleFrame]
  /\ runs = 0
  /\ cmd = NoCommand
  /\ dev = [NoDevice EXCEPT !.last = "check"]
  /\ web = NoWelcome
  /\ view = NoView
  /\ eink = NoEink

NextMon ==
  \/ InstallUpdates
  \/ \E failed \in BOOLEAN : ListUnitsReturns(failed)
  \/ \E choice \in {"Install Now", "Cancel", Dismissed} : InstallDialogAnswered(choice)
  \/ \E failed \in BOOLEAN : ScheduleReturns(failed)
  \/ MonitorTimerFires
  \/ \E failed \in BOOLEAN, code \in {0, 1} : CheckReturns(failed, code)
  \/ \E sub \in {"exited", "failed"} : UnitEnds(sub)
  \/ UnitCollected
  \/ CheckUpdates
  \/ \E failed \in BOOLEAN : ProbeReturns(failed)
  \/ UpdateListReturns
  \/ TrialOperation
  \/ \E code \in {0, 1} : TrialOperationCloses(code)

SpecMon == InitMon /\ [][NextMon]_vars

\* C18: a monitor chain makes at most 240 checks, and one that has stopped
\* stopped on a check that saw SubState dead, exited or failed, or on its
\* 240th check with status 'timeout' recorded; when it stops _isProcessing is
\* false.
C18_MonitorStops ==
  /\ dev.mon.checkCount <= maxChecks
  /\ dev.mon.pc = "stopped" =>
       \/ dev.mon.how \in {"completed", "failed"}
       \/ dev.mon.how = "timeout" /\ dev.mon.checkCount = maxChecks
  /\ dev.mon.pc = "stopped" /\ dev.last = "checked" => ~dev.isProcessing

\* the operations that have set _isProcessing and have not yet ended
Holders ==
  {o \in {"update", "check", "trial"} :
     \/ o = "update" /\ (dev.upd = "scheduling" \/ MonitorLive)
     \/ o = "check" /\ dev.chk = "listing"
     \/ o = "trial" /\ dev.op = "running"}

\* C26: at most one of startTrial/stopTrial, checkForUpdates and
\* runSystemUpdate with its monitor is in progress at a time, and
\* _isProcessing is true for as long as an operation that set it is running.
C26_MutualExclusion ==
  /\ Cardinality(Holders) <= 1
  /\ Holders # {} => dev.isProcessing

\* what a step of runSystemUpdate does, by the branch it takes
RunSystemUpdateStep ==
  /\ dev'.unit # dev.unit /\ dev.unit = "none" =>
       dev.upd = "scheduling" /\ dev'.last = "scheduled" /\ MonitorLive'
  /\ dev.upd = "listing" /\ dev'.upd = "dialog" =>
       dev.unit = "none" /\ dev' = [dev EXCEPT !.upd = "dialog", !.last = "ask"]
  /\ dev.upd = "listing" /\ dev'.last = "attach" =>
       /\ dev.unit # "none" /\ dev'.unit = dev.unit
       /\ dev'.isProcessing /\ dev'.updateStatus = "running"
       /\ dev'.mon.pc = "timer" /\ dev'.mon.checkCount = 0
  /\ dev.upd = "dialog" /\ dev'.upd = "scheduling" => dev'.last = "Install Now"
  /\ dev.upd = "dialog" /\ dev'.upd # "dialog" /\ dev'.last # "Install Now" =>
       dev' = [dev EXCEPT !.upd = "idle", !.last = dev'.last]
  /\ dev.upd \in {"listing", "scheduling"} /\ dev'.last = "catch" =>
       /\ ~dev'.isProcessing /\ dev'.updateStatus = ""
       /\ dev'.unit = dev.unit /\ dev'.mon = dev.mon /\ ~MonitorLive'

\* C27: runSystemUpdate schedules a unit only from the dialog it opened
\* because list-units showed nothing and that was answered 'Install Now';
\* with a unit listed it sets _isProcessing and starts a monitor without
\* scheduling; an answer other than 'Install Now' leaves _isProcessing, the
\* update status, the unit and the monitor as they were; and when list-units
\* or systemd-run fails, _isProcessing is false afterwards and no monitor is
\* started.
C27_SchedulesOnlyConfirmed ==
  /\ [](dev.upd \in {"dialog", "scheduling"} => dev.unit = "none")
  /\ [][RunSystemUpdateStep]_vars

\* an update was scheduled and its monitor gave up with the unit still
\* running; a second runSystemUpdate found the unit listed and attached
C27_Witness ==
  /\ dev.last = "attach"
  /\ dev.unit = "running"
  /\ dev.isProcessing
  /\ dev.mon.pc = "timer"

(* ----------------------------- welcome page ---------------------------- *)

\* activate and openWelcome of the welcome extension.  The global state
\* outlives the window; the panels do not.

notWeb == <<reg, inv, runs, cmd, dev, view, eink>>

\* openWelcome(ctx): createWebviewPanel(...), html, message handler
OpenWelcome(w) == [w EXCEPT !.panels = @ + 1]

\* what openWelcome(ctx) evaluates to: the function has no return statement
OpenWelcomeResult == "undefined"

\* value.then(...) can be called
Thenable(value) == value = "promise"

\* activate(ctx): the commands are registered; if (!globalState.get(shownKey))
\* openWelcome(ctx).then(() => globalState.update(shownKey, true))
Activate ==
  /\ ~web.active
  /\ web.activations < MaxActivations
  /\ web' = LET w == [web EXCEPT !.active = TRUE, !.activations = @ + 1, !.threw = FALSE]
            IN IF ~w.homeShown
               THEN [OpenWelcome(w) EXCEPT
                       !.autoOpened = @ + 1,
                       !.homeShown = Thenable(OpenWelcomeResult),
                       !.threw = ~Thenable(OpenWelcomeResult)]
               ELSE w
  /\ UNCHANGED notWeb

\* command pamir.openHome
OpenHome ==
  /\ web.active
  /\ web.opened < MaxOpens
  /\ web' = [OpenWelcome(web) EXCEPT !.opened = @ + 1]
  /\ UNCHANGED notWeb

\* the user closes a welcome panel
PanelClosed ==
  /\ web.panels > 0
  /\ web' = [web EXCEPT !.panels = @ - 1]
  /\ UNCHANGED notWeb

\* the window is closed: deactivate()
Deactivate ==
  /\ web.active
  /\ web' = [web EXCEPT !.active = FALSE, !.panels = 0]
  /\ UNCHANGED notWeb

InitWelcome ==
  /\ reg = [s \in Sessions |-> Gone]
  /\ inv = [i \in Callers |-> IdleFrame]
  /\ runs = 0
  /\ cmd = NoCommand
  /\ dev = NoDevice
  /\ web = NoWelcome
  /\ view = NoView
  /\ eink = NoEink

NextWelcome ==
  \/ Activate
  \/ OpenHome
  \/ PanelClosed
  \/ Deactivate

SpecWelcome == InitWelcome /\ [][NextWelcome]_vars

\* C20: over all activations that share the global state, activate opens
\* the welcome page once: the first activation opens it and every later one,
\* finding 'pamir.homeShown' set, opens none.
C20_AutoOpenOnce ==
  /\ web.autoOpened <= 1
  /\ web.activations > 1 => web.homeShown

(* ------------------------------ session tree --------------------------- *)

\* SessionTreeProvider: getChildren() for the root and getChildren(directory)
\* for each directory item; the directories are created expanded, so the tree
\* view asks for all of them.

\* the cwd of a listed session: null, empty, or a path
NoCwd == "<null>"
Cwds == {NoCwd, "", "/a", "/b"}
Stamps == 1 .. MaxStamp

\* a list of n sessions as listSessions({ limit: 100 }) resolves to it, each
\* session with its own id, the cwds c and the timestamps t
ListOf(n, c, t) == [k \in 1 .. n |-> [id |-> k, cwd |-> c[k], lastSeenAt |-> t[k]]]

SortByKeyAsc(pairs) ==
  LET at(i) == Cardinality({j \in DOMAIN pairs : pairs[j][1] < pairs[i][1]})
               + Cardinality({j \in 1 .. i : pairs[j][1] = pairs[i][1]})
  IN [r \in DOMAIN pairs |-> pairs[CHOOSE i \in DOMAIN pairs : at(i) = r]]

\* Array.prototype.sort((a, b) => b.key - a.key) on <<key, value>> pairs: a
\* stable sort, greatest key first; an element comes after those of greater
\* key and after the earlier ones of its own key
SortByKeyDesc(pairs) ==
  LET at(i) == Cardinality({j \in DOMAIN pairs : pairs[j][1] > pairs[i][1]})
               + Cardinality({j \in 1 .. i : pairs[j][1] = pairs[i][1]})
  IN [r \in DOMAIN pairs |-> pairs[CHOOSE i \in DOMAIN pairs : at(i) = r]]

Values(pairs) == [k \in DOMAIN pairs |-> pairs[k][2]]

\* session.cwd || 'Unknown Directory'
DirOf(session) ==
  IF session.cwd = NoCwd \/ session.cwd = "" THEN "Unknown Directory" ELSE session.cwd

\* the keys of the Map sessionsByDir, in insertion order: the directory of
\* each session that is the first of its directory
DirPaths(sessions) ==
  LET firsts == SelectSeq([k \in DOMAIN sessions |-> k],
                          LAMBDA k : \A j \in 1 .. k - 1 : DirOf(sessions[j]) # DirOf(sessions[k]))
  IN [n \in DOMAIN firsts |-> DirOf(sessions[firsts[n]])]

\* Math.max(...numbers) of a non-empty list
MathMax(numbers) == CHOOSE m \in Range(numbers) : \A x \in Range(numbers) : x <= m

\* mostRecentTimestamp || 0
OrZero(x) == IF x = 0 THEN 0 ELSE x

\* new DirectoryTreeItem(dirPath, dirSessions, Expanded) with its timestamp
DirectoryTreeItem(dirPath, sessions) ==
  LET dirSessions == SelectSeq(sessions, LAMBDA x : DirOf(x) = dirPath)
  IN [kind |-> "directory", dirPath |-> dirPath, sessions |-> dirSessions,
      mostRecentTimestamp |-> MathMax([k \in DOMAIN dirSessions |-> dirSessions[k].lastSeenAt])]

EmptyStateItem == [kind |-> "empty", dirPath |-> "", sessions |-> <<>>, mostRecentTimestamp |-> 0]
ErrorItem == [kind |-> "error", dirPath |-> "", sessions |-> <<>>, mostRecentTimestamp |-> 0]

\* getRootChildren
GetRootChildren(answer) ==
  IF ~answer.ok THEN <<ErrorItem>>
  ELSE IF Len(answer.sessions) = 0 THEN <<EmptyStateItem>>
  ELSE LET paths == DirPaths(answer.sessions)
           dirItems == [k \in DOMAIN paths |-> DirectoryTreeItem(paths[k], answer.sessions)]
       IN Values(SortByKeyDesc([k \in DOMAIN dirItems |->
                                  <<OrZero(dirItems[k].mostRecentTimestamp), dirItems[k]>>]))

\* getChildren(element) of a root item
GetChildren(element) ==
  IF element.kind = "directory"
  THEN Values(SortByKeyDesc([k \in DOMAIN element.sessions |->
                               <<element.sessions[k].lastSeenAt, element.sessions[k]>>]))
  ELSE <<>>

InitTree ==
  /\ reg = [s \in Sessions |-> Gone]
  /\ inv = [i \in Callers |-> IdleFrame]
  /\ runs = 0
  /\ cmd = NoCommand
  /\ dev = NoDevice
  /\ web = NoWelcome
  /\ view = NoView
  /\ eink = NoEink

\* the tree view is built: listSessions answers and the items are made; the
\* items depend on the answer alone, so one build per behaviour is followed
TreeRefreshed(answer) ==
  /\ view' = LET root == GetRootChildren(answer)
             IN [view EXCEPT !.listed = answer, !.root = root,
                             !.children = [k \in DOMAIN root |-> GetChildren(root[k])]]
  /\ UNCHANGED <<reg, inv, runs, cmd, dev, web, eink>>

\* listSessions throws, or resolves to a list of up to MaxSessions sessions
NextTree ==
  /\ view.root = <<>>
  /\ \/ TreeRefreshed([ok |-> FALSE, sessions |-> <<>>])
     \/ \E n \in 0 .. MaxSessions :
          \E c \in [1 .. n -> Cwds], t \in [1 .. n -> Stamps] :
            TreeRefreshed([ok |-> TRUE, sessions |-> ListOf(n, c, t)])

SpecTree == InitTree /\ [][NextTree]_vars

\* the directory a session is shown under: its cwd, or 'Unknown Directory'
\* when it has none
Shown(session) ==
  IF session.cwd \in {NoCwd, ""} THEN "Unknown Directory" ELSE session.cwd

Descending(numbers) ==
  \A i, j \in DOMAIN numbers : i < j => numbers[i] >= numbers[j]

\* C21: the root of the tree has one directory item per distinct directory
\* of the listed sessions, sessions without cwd counting under 'Unknown
\* Directory'; every listed session is in exactly one directory, its own,
\* once; the directories are in descending order of their greatest
\* lastSeenAt, and the children of a directory are its sessions in
\* descending order of lastSeenAt; an empty list gives the single
\* empty-state item and a failed listing the single error item.
C21_GroupedAndSorted ==
  LET sessions == view.listed.sessions
      root == view.root
  IN view.root # <<>> =>
     /\ ~view.listed.ok => root = <<ErrorItem>>
     /\ view.listed.ok /\ sessions = <<>> => root = <<EmptyStateItem>>
     /\ view.listed.ok /\ sessions # <<>> =>
          /\ \A k \in DOMAIN root : root[k].kind = "directory"
          /\ \A i, j \in DOMAIN root : root[i].dirPath = root[j].dirPath => i = j
          /\ {root[k].dirPath : k \in DOMAIN root} = {Shown(x) : x \in Range(sessions)}
          /\ \A x \in Range(sessions) :
               /\ Cardinality({k \in DOMAIN root : x \in Range(view.children[k])}) = 1
               /\ \A k \in DOMAIN root :
                    x \in Range(view.children[k]) =>
                      /\ root[k].dirPath = Shown(x)
                      /\ Cardinality({n \in DOMAIN view.children[k] : view.children[k][n] = x}) = 1
          /\ \A k \in DOMAIN root : Range(view.children[k]) \subseteq Range(sessions)
          /\ Descending([k \in DOMAIN root |->
                           MathMax([n \in DOMAIN view.children[k] |-> view.children[k][n].lastSeenAt])])
          /\ \A k \in DOMAIN root :
               Descending([n \in DOMAIN view.children[k] |-> view.children[k][n].lastSeenAt])

\* three sessions, the first two listed in ascending order in /a, the third
\* without cwd and the most recent: 'Unknown Directory' comes first
C21_Witness ==
  /\ Len(view.listed.sessions) = 3
  /\ Len(view.root) = 2
  /\ view.root[1].dirPath = "Unknown Directory"
  /\ view.root[2].dirPath = "/a"
  /\ view.listed.sessions[1].lastSeenAt < view.listed.sessions[2].lastSeenAt
  /\ view.listed.sessions[2].lastSeenAt < view.listed.sessions[3].lastSeenAt
  /\ Len(view.children[2]) = 2
  /\ view.children[2][1] = view.listed.sessions[2]

(* ------------------------- auto-refresh and status bar ----------------- *)

\* activate, setupAutoRefresh, refreshAndUpdateStatus and deactivate of the
\* session manager.  setupAutoRefresh is called by activate; it is also
\* called on its own here, so that every sequence of setupAutoRefresh and
\* deactivate calls is followed.

notView == <<reg, inv, runs, cmd, dev, web, eink>>

\* what listSessions resolves to, as far as the status bar reads it: the
\* number of sessions and of active ones; or it throws
Counts == 0 .. 2
StatusAnswers ==
  {[ok |-> FALSE, active |-> 0, total |-> 0]} \cup
  {a \in [ok : {TRUE}, active : Counts, total : Counts] : a.active <= a.total}

\* the text refreshAndUpdateStatus writes for an answer
StatusText(answer) ==
  IF ~answer.ok THEN [icon |-> "$(error)", n |-> 0, noun |-> "Happy Sessions"]
  ELSE IF answer.active > 0
  THEN [icon |-> "$(pulse)", n |-> answer.active,
        noun |-> IF answer.active # 1 THEN "Active Sessions" ELSE "Active Session"]
  ELSE [icon |-> "$(circle-outline)", n |-> answer.total,
        noun |-> IF answer.total # 1 THEN "Sessions" ELSE "Session"]

SetupAutoRefreshNoClear(v) ==
  [v EXCEPT !.refreshTimer = v.made + 1,
            !.timers = @ \cup {[id |-> v.made + 1, ms |-> RefreshIntervalMs]},
            !.made = @ + 1]

\* setupAutoRefresh: clearInterval(refreshTimer) when set, then setInterval
SetupAutoRefresh(v) ==
  [v EXCEPT !.refreshTimer = v.made + 1,
            !.timers = {t \in @ : v.refreshTimer = 0 \/ t.id # v.refreshTimer}
                         \cup {[id |-> v.made + 1, ms |-> RefreshIntervalMs]},
            !.made = @ + 1]

\* refreshAndUpdateStatus up to await apiClient.listSessions
StartRefresh(v, origin) ==
  [v EXCEPT !.started = @ + 1,
            !.origin = origin,
            !.inflight = @ \cup {v.started + 1}]

\* activate: setupAutoRefresh() and the initial refreshAndUpdateStatus()
ActivateView ==
  /\ ~view.activated
  /\ view.started < MaxRefreshes
  /\ view' = StartRefresh([SetupAutoRefresh(view) EXCEPT !.activated = TRUE], "activate")
  /\ UNCHANGED notView

\* setupAutoRefresh called again
SetupAgain ==
  /\ view.activated
  /\ view.made < MaxRefreshes
  /\ view' = SetupAutoRefresh(view)
  /\ UNCHANGED notView

\* an interval timer that is set fires
RefreshTimerFires(t) ==
  /\ t \in view.timers
  /\ view.started < MaxRefreshes
  /\ view' = StartRefresh(view, "timer")
  /\ UNCHANGED notView

\* the happySessions.refresh command, or the refresh after a kill
RefreshCommand(origin) ==
  /\ view.activated
  /\ view.started < MaxRefreshes
  /\ view' = StartRefresh(view, origin)
  /\ UNCHANGED notView

\* listSessions of call r resolves or throws: the status bar is written
ListReturns(r, answer) ==
  /\ r \in view.inflight
  /\ view' = [view EXCEPT !.inflight = @ \ {r}, !.text = StatusText(answer), !.writer = r]
  /\ UNCHANGED notView

\* deactivate: clearInterval(refreshTimer) when set
DeactivateView ==
  /\ view.activated
  /\ view' = [view EXCEPT !.activated = FALSE,
                          !.timers = {t \in @ : view.refreshTimer = 0 \/ t.id # view.refreshTimer}]
  /\ UNCHANGED notView

NextRefresh ==
  \/ ActivateView
  \/ SetupAgain
  \/ \E t \in view.timers : RefreshTimerFires(t)
  \/ \E origin \in {"command", "kill"} : RefreshCommand(origin)
  \/ \E r \in view.inflight, answer \in StatusAnswers : ListReturns(r, answer)
  \/ DeactivateView

SpecRefresh == InitTree /\ [][NextRefresh]_vars

\* C22: at most one interval timer is set at any time, it is the one
\* refreshTimer holds and its period is 5000 ms; while the extension is
\* deactivated no timer is set; and a refresh started by a timer is started
\* while the extension is active, by the timer refreshTimer holds.
C22_OneRefreshTimer ==
  /\ [](/\ Cardinality(view.timers) <= 1
        /\ \A t \in view.timers : t.id = view.refreshTimer /\ t.ms = RefreshIntervalMs
        /\ view.activated = (view.timers # {}))
  /\ [][view'.started # view.started /\ view'.origin = "timer" =>
          /\ view.activated
          /\ view.timers = {[id |-> view.refreshTimer, ms |-> RefreshIntervalMs]}]_vars

\* activated, set up again, deactivated and activated again: the third timer
\* is the only one set, and it has started a refresh
C22_Witness ==
  /\ view.activated
  /\ view.made = 3
  /\ view.timers = {[id |-> 3, ms |-> RefreshIntervalMs]}
  /\ view.started = 4
  /\ view.origin = "timer"

\* C29: once no refresh is awaiting its answer, the status bar shows what
\* the most recently started refresh wrote.
C29_LatestRefreshWins ==
  view.started > 0 /\ view.inflight = {} => view.writer = view.started

(* ------------------------------ e-ink display -------------------------- *)

\* displayOnDevice with runPythonScript, one call followed from each await
\* to the next.  fsp.writeFile opens the file, which creates it, and then
\* writes: it fails before the file exists, or with the file created and the
\* data not written (no space left, I/O error).

notEink == <<reg, inv, runs, cmd, dev, web, view>>

\* the temp file written at each step, and the step after it
FileOf == [png |-> "png", template |-> "template", script |-> "script"]
After == [png |-> "template", template |-> "script", script |-> "running"]

\* displayOnDevice is called: await fsp.mkdir(tmpDir, { recursive: true })
DisplayOnDevice ==
  /\ eink.pc = "idle"
  /\ eink' = [eink EXCEPT !.pc = "mkdir"]
  /\ UNCHANGED notEink

\* mkdir returned; it is awaited before the try, so its error is thrown as is
MkdirReturns(failed) ==
  /\ eink.pc = "mkdir"
  /\ eink' = IF failed
             THEN [eink EXCEPT !.pc = "done", !.error = "mkdir", !.result = "threw"]
             ELSE [eink EXCEPT !.pc = "png"]
  /\ UNCHANGED notEink

\* spawn(pythonPath, [scriptPath]) and setTimeout(..., timeoutMs)
Spawned(e) == [e EXCEPT !.child = "running", !.timer = "pending"]

\* the write of the PNG, of the template (createTemplateJson) or of the
\* script (createPythonScript) returned: the path is pushed to filesToClean
\* once the write is done
WriteReturns(outcome) ==
  /\ eink.pc \in DOMAIN FileOf
  /\ LET file == FileOf[eink.pc]
         step == After[eink.pc]
     IN eink' =
          CASE outcome = "ok" ->
                 LET e == [eink EXCEPT !.pc = step, !.disk = @ \cup {file},
                                       !.created = @ \cup {file},
                                       !.filesToClean = Append(@, file)]
                 IN IF step = "running" THEN Spawned(e) ELSE e
            [] outcome = "failed" ->
                 [eink EXCEPT !.pc = "finally", !.error = "write"]
            [] outcome = "partial" ->
                 [eink EXCEPT !.pc = "finally", !.error = "write", !.disk = @ \cup {file},
                              !.created = @ \cup {file}]
  /\ UNCHANGED notEink

\* resolve() or reject(...): the first call settles the promise, later calls
\* do nothing
Settle(e, kind, why) ==
  [e EXCEPT !.attempts = @ + 1,
            !.settled = IF e.settled = "pending" THEN kind ELSE @,
            !.why = IF e.settled = "pending" THEN why ELSE @]

\* clearTimeout(timeout)
ClearTimeout(e) == [e EXCEPT !.timer = IF @ = "pending" THEN "cleared" ELSE @]

\* child.stderr.on('data'): stderr += data; the streams may still deliver
\* after the exit event
StderrData(hasError) ==
  /\ eink.child \in {"running", "exited"}
  /\ eink' = [eink EXCEPT !.stderrError = @ \/ hasError]
  /\ eink' # eink
  /\ UNCHANGED notEink

\* child.on('exit'); code -1 stands for null, the exit by a signal
ChildExits(code) ==
  /\ eink.child \in {"running", "errored"}
  /\ eink.killed => code # 0
  /\ eink' = LET e == [ClearTimeout(eink) EXCEPT
                         !.child = "exited",
                         !.exit = [code |-> code, sawError |-> eink.stderrError]]
             IN IF eink.stderrError THEN Settle(e, "rejected", "SDK error")
                ELSE IF code # 0 THEN Settle(e, "rejected", "exit code")
                ELSE Settle(e, "resolved", "exit")
  /\ UNCHANGED notEink

\* child.on('error'): the process could not be spawned, or not be killed
ChildError ==
  /\ eink.child = "running"
  /\ eink' = Settle([ClearTimeout(eink) EXCEPT !.child = "errored"], "rejected", "spawn")
  /\ UNCHANGED notEink

\* the timeout fires: child.kill('SIGKILL') and reject
TimeoutFires ==
  /\ eink.timer = "pending"
  /\ eink' = Settle([eink EXCEPT !.timer = "fired", !.killed = TRUE], "rejected", "timeout")
  /\ UNCHANGED notEink

\* await runPythonScript(...) continues: on to the finally block, through
\* the catch when the promise was rejected
ScriptSettled ==
  /\ eink.pc = "running"
  /\ eink.settled # "pending"
  /\ eink' = [eink EXCEPT !.pc = "finally",
                          !.error = IF eink.settled = "rejected" THEN eink.why ELSE ""]
  /\ UNCHANGED notEink

\* the end of displayOnDevice: the error caught is thrown again
Ended(e) ==
  [e EXCEPT !.pc = "done", !.result = IF e.error # "" THEN "threw" ELSE "returned"]

\* the finally block reads pamir.eink.debugMode and starts the loop
Finally(debugMode) ==
  /\ eink.pc = "finally"
  /\ eink' = IF debugMode \/ eink.filesToClean = <<>>
             THEN Ended([eink EXCEPT !.debugMode = debugMode])
             ELSE [eink EXCEPT !.debugMode = debugMode, !.pc = "unlink", !.next = 1]
  /\ UNCHANGED notEink

\* await fsp.unlink(file) returned or threw; the loop goes on either way
UnlinkReturns(failed) ==
  /\ eink.pc = "unlink"
  /\ LET file == eink.filesToClean[eink.next]
         e == IF failed THEN [eink EXCEPT !.unlinkFailed = @ \cup {file}, !.next = @ + 1]
              ELSE [eink EXCEPT !.disk = @ \ {file}, !.next = @ + 1]
     IN eink' = IF e.next > Len(e.filesToClean) THEN Ended(e) ELSE e
  /\ UNCHANGED notEink

NextEink ==
  \/ DisplayOnDevice
  \/ \E failed \in BOOLEAN : MkdirReturns(failed)
  \/ \E outcome \in {"ok", "failed", "partial"} : WriteReturns(outcome)
  \/ \E hasError \in BOOLEAN : StderrData(hasError)
  \/ \E code \in {-1, 0, 1} : ChildExits(code)
  \/ ChildError
  \/ TimeoutFires
  \/ ScriptSettled
  \/ \E debugMode \in BOOLEAN : Finally(debugMode)
  \/ \E failed \in BOOLEAN : UnlinkReturns(failed)

SpecEink == InitTree /\ [][NextEink]_vars

\* C23: when displayOnDevice has ended, with debug mode off every temp file
\* it created is deleted, but for those whose deletion failed, and a deletion
\* was attempted for each; with debug mode on every file it created is still
\* there; and it has thrown exactly when a step of it failed.
C23_TempFilesCleaned ==
  eink.pc = "done" =>
    /\ ~eink.debugMode => eink.disk \subseteq eink.unlinkFailed
    /\ eink.debugMode => eink.disk = eink.created
    /\ (eink.result = "threw") = (eink.error # "")

\* What runPythonScript does guarantee: the promise, once settled, stays as
\* it is; it is resolved only by an exit event with code 0 and no 'ERROR:' in
\* the stderr collected until then, handled while the timeout was pending; an
\* exit event handled first rejects it when the stderr collected has 'ERROR:'
\* or the code is not 0, an error event handled first rejects it, and the
\* timeout rejects it after SIGKILL was sent; the timer is no longer pending
\* once an exit or error event was handled.
SettlesOnce ==
  /\ [](/\ eink.settled = "resolved" =>
             /\ eink.why = "exit"
             /\ eink.exit.code = 0 /\ ~eink.exit.sawError
             /\ eink.timer = "cleared"
        /\ eink.settled = "rejected" =>
             /\ eink.why \in {"SDK error", "exit code", "spawn", "timeout"}
             /\ eink.why = "SDK error" => eink.exit.sawError
             /\ eink.why = "exit code" => eink.exit.code # 0 /\ ~eink.exit.sawError
             /\ eink.why = "timeout" => eink.killed /\ eink.timer = "fired"
        /\ (eink.settled = "pending") = (eink.attempts = 0)
        /\ eink.child \in {"exited", "errored"} => eink.timer \in {"cleared", "fired"}
        /\ eink.child \in {"exited", "errored"} \/ eink.timer = "fired" => eink.settled # "pending")
  /\ [][eink.settled # "pending" =>
          eink'.settled = eink.settled /\ eink'.why = eink.why]_vars
  /\ [][eink.settled = "pending" /\ eink'.exit # eink.exit =>
          eink'.settled = IF eink'.exit.code = 0 /\ ~eink'.exit.sawError
                          THEN "resolved" ELSE "rejected"]_vars

\* C30: runPythonScript settles once, with the first decisive event: it is
\* resolved only if the process exited with code 0 and its stderr has no
\* 'ERROR:', and stays rejected after a timeout whatever exit event follows.
C30_ResolvesOnlyWithoutError ==
  /\ eink.settled = "resolved" => eink.exit.code = 0 /\ ~eink.stderrError
  /\ eink.timer = "fired" => eink.settled = "rejected" /\ eink.why = "timeout"

====
